---- MODULE Spec2Model ----
(***************************************************************************)
(* OpenDSP signal-processing core: the waveform cache and the Signal Chain *)
(* Evaluator (processWaveformLine), the Block Processor (processBlock),    *)
(* the Aliasing Model (applyAliasing) and the spectral cache of the        *)
(* Spectral Estimator (generateWaterfallData), src/utils/dsp-processing.ts *)
(*                                                                         *)
(* Numbers.  Times are integers in milliseconds.  Parameter fields are     *)
(* two-limb numbers <<hi, lo>> of value (hi * 10^9 + lo) thousandths, with *)
(* 0 <= lo < 10^9, so that 0.001 and 10^10 are both exact and the order of *)
(* the numbers is the lexicographic order of the pairs.  Sample values are *)
(* integers in millionths.                                                 *)
(***************************************************************************)
EXTENDS Integers, Sequences, FiniteSets, TLC

VARIABLES
    waveformCache,  \* Map<string, {time, points}> as its entries in insertion order
    fftCache,       \* Map<string, WaterfallData> as its entries in insertion order
    noiseGen,       \* the module-level NoiseGenerator: its pink filter state and draw count
    waveformLines,  \* the caller's line list (the store's waveformLines)
    currentTime,    \* the caller's playback clock, in ms
    evicted,        \* history: the keys deleted from waveformCache so far, in order
    call,           \* the last core call and the one before: arguments and what they returned
    pure            \* input and result of the last stand-alone pure call

vars == <<waveformCache, fftCache, noiseGen, waveformLines, currentTime, evicted,
          call, pure>>

----------------------------------------------------------------------------
(* Numbers *)

Giga == 1000 * 1000 * 1000

Milli(x) == <<x \div Giga, x % Giga>>

Units(x) == <<x \div (1000 * 1000), (x % (1000 * 1000)) * 1000>>

NumLE(a, b) == a[1] < b[1] \/ (a[1] = b[1] /\ a[2] <= b[2])

NumMin(a, b) == IF NumLE(a, b) THEN a ELSE b

NumMax(a, b) == IF NumLE(a, b) THEN b ELSE a

MilliOf(n) == n[1] * Giga + n[2]

Abs(x) == IF x < 0 THEN -x ELSE x

----------------------------------------------------------------------------
(* Program constants, src/unnamed/part_005 (constants/dsp-config) *)

SAMPLE_RATE == 44100

DISPLAY_SAMPLES == 512

FFT_SIZE == 256

BlockTypes == {"sine", "square", "sawtooth", "triangle", "pulse", "chirp", "noise",
               "lowpass", "highpass", "bandpass", "notch", "interpolate"}

P(name, value, min, max, step, unit) ==
    [name |-> name, value |-> value, min |-> min, max |-> max, step |-> step,
     unit |-> unit]

TenGHz == <<10000, 0>>

OneGHz == <<1000, 0>>

FreqParam(name, hz) == P(name, Units(hz), Milli(1), TenGHz, Milli(1), "Hz")

AmpParam(name, milli) == P(name, Milli(milli), Milli(0), Units(10000), Milli(10), "none")

PhaseParam == P("Phase", Milli(0), Milli(0), Units(360), Units(1), "deg")

GainParam(db) == P("Gain", Units(db), Units(-60), Units(20), Milli(100), "dB")

QParam == P("Q", Units(1), Milli(500), Units(10), Milli(100), "none")

BLOCK_TEMPLATES ==
    [t \in BlockTypes |->
       CASE t = "sine" ->
              [frequency |-> FreqParam("Frequency", 440),
               amplitude |-> AmpParam("Amplitude", 500),
               phase |-> PhaseParam,
               gain |-> GainParam(0)]
         [] t = "square" ->
              [frequency |-> FreqParam("Frequency", 220),
               dutyCycle |-> P("Duty Cycle", Milli(500), Milli(100), Milli(900),
                               Milli(10), "none"),
               gain |-> GainParam(-10)]
         [] t = "sawtooth" ->
              [frequency |-> FreqParam("Frequency", 330),
               amplitude |-> AmpParam("Amplitude", 400),
               phase |-> PhaseParam,
               gain |-> GainParam(-2)]
         [] t = "triangle" ->
              [frequency |-> FreqParam("Frequency", 550),
               amplitude |-> AmpParam("Amplitude", 600),
               phase |-> PhaseParam,
               gain |-> GainParam(-3)]
         [] t = "pulse" ->
              [frequency |-> FreqParam("Frequency", 1000),
               width |-> P("Pulse Width", Milli(100), Milli(10), Milli(500),
                           Milli(10), "none"),
               amplitude |-> AmpParam("Amplitude", 800),
               gain |-> GainParam(-6)]
         [] t = "chirp" ->
              [startFreq |-> FreqParam("Start Freq", 100),
               endFreq |-> FreqParam("End Freq", 2000),
               duration |-> P("Sweep Time", Units(1), Milli(100), Units(10),
                              Milli(100), "s"),
               amplitude |-> AmpParam("Amplitude", 500),
               gain |-> GainParam(-4)]
         [] t = "noise" ->
              [intensity |-> AmpParam("Intensity", 200),
               type |-> P("Type", Milli(0), Milli(0), Units(1), Units(1), "none")]
         [] t = "lowpass" ->
              [cutoff |-> FreqParam("Cutoff", 1000), resonance |-> QParam]
         [] t = "highpass" ->
              [cutoff |-> FreqParam("Cutoff", 500), resonance |-> QParam]
         [] t = "bandpass" ->
              [centerFreq |-> FreqParam("Center Freq", 1000),
               bandwidth |-> P("Bandwidth", Units(200), Milli(1), OneGHz, Milli(1), "Hz"),
               resonance |-> QParam]
         [] t = "notch" ->
              [centerFreq |-> FreqParam("Center Freq", 1000),
               bandwidth |-> P("Bandwidth", Units(100), Milli(1), OneGHz, Milli(1), "Hz"),
               depth |-> P("Depth", Milli(900), Milli(100), Units(1), Milli(10), "none")]
         [] t = "interpolate" ->
              [method |-> P("Method", Milli(0), Milli(0), Units(2), Units(1), "none"),
               resolution |-> P("Resolution", Units(2), Units(1), Units(8), Units(1),
                                "none"),
               smoothing |-> P("Smoothing", Milli(500), Milli(0), Units(1), Milli(10),
                               "none")]]

\* The parameter names whose .value processBlock reads for each type
\* (block.parameters.<name>.value without a guard: a missing one throws).
ParamsRead(type) ==
    CASE type = "sine" -> {"frequency", "amplitude", "phase", "gain"}
      [] type = "square" -> {"frequency", "dutyCycle", "gain"}
      [] type = "sawtooth" -> {"frequency", "amplitude", "phase", "gain"}
      [] type = "triangle" -> {"frequency", "amplitude", "phase", "gain"}
      [] type = "pulse" -> {"frequency", "width", "amplitude", "gain"}
      [] type = "chirp" -> {"startFreq", "endFreq", "duration", "amplitude", "gain"}
      [] type = "noise" -> {"intensity", "type"}
      [] type = "lowpass" -> {"cutoff", "resonance"}
      [] type = "highpass" -> {"cutoff", "resonance"}
      [] type = "bandpass" -> {"centerFreq", "bandwidth"}
      [] type = "notch" -> {"centerFreq", "bandwidth", "depth"}
      [] type = "interpolate" -> {"method", "resolution", "smoothing"}
      [] OTHER -> {}

----------------------------------------------------------------------------
(* Aliasing Model: applyAliasing, dsp-processing.ts lines 25-49.            *)
(* Frequencies are integers in one common unit (the unit is the caller's:   *)
(* the result depends on frequency / sampleRate only).  powerLoss is in     *)
(* millionths.  Math.log2 and Math.pow are evaluated in binary fixed point: *)
(* log2 with LogBits fractional bits, 2^-x by the product of the factors    *)
(* 2^-(1/2), 2^-(1/4), ... of the bits of x, each in 1/32768.               *)

Pow2(n) == 2 ^ n

\* 2^-(1/2^i) in 1/32768, i = 1 .. 10
HalfPowers == <<23170, 27554, 30048, 31379, 32066, 32415, 32591, 32679, 32724, 32746>>

\* fractional bits of the fixed-point logarithms and exponents
LogBits == Len(HalfPowers)


\* floor(log2(a / b)) for a >= b > 0
Octaves(a, b) == CHOOSE k \in 0..30 : (a \div Pow2(k)) >= b /\ (a \div Pow2(k + 1)) < b

\* the bits after the binary point of num / den, for 0 <= num < den: n of them
RECURSIVE FracBits(_, _, _)
FracBits(num, den, n) ==
    IF n = 0 THEN 0
    ELSE LET d == 2 * num
             bit == IF d >= den THEN 1 ELSE 0
         IN bit * Pow2(n - 1) + FracBits(d - bit * den, den, n - 1)

\* a / (b * 2^k) in 1/16384, for b * 2^k <= a < b * 2^(k+1)
Mantissa(a, b, k) == 16384 + FracBits(a - b * Pow2(k), b * Pow2(k), 14)

\* the first n bits after the binary point of log2(x / 16384), 16384 <= x < 32768
RECURSIVE Log2Frac(_, _)
Log2Frac(x, n) ==
    IF n = 0 THEN 0
    ELSE LET sq == (x * x) \div 16384
             bit == IF sq >= 32768 THEN 1 ELSE 0
         IN bit * Pow2(n - 1) + Log2Frac(IF bit = 1 THEN sq \div 2 ELSE sq, n - 1)

\* Math.log2(a / b) in 1/2^LogBits, for a >= b > 0
Log2Ratio(a, b) ==
    LET k == Octaves(a, b)
    IN k * Pow2(LogBits) + Log2Frac(Mantissa(a, b, k), LogBits)


\* 2^-(f / 2^LogBits) in 1/32768, for 0 <= f < 2^LogBits: bit i of f is 2^-(1/2^i)
RECURSIVE Exp2NegFrac(_, _)
Exp2NegFrac(f, i) ==
    IF i > LogBits THEN 32768
    ELSE LET rest == Exp2NegFrac(f, i + 1)
         IN IF (f \div Pow2(LogBits - i)) % 2 = 1
            THEN (rest * HalfPowers[i]) \div 32768
            ELSE rest

\* 2^-(e / 2^LogBits) in millionths, for e >= 0
Exp2Neg(e) ==
    LET n == e \div Pow2(LogBits)
        x == Exp2NegFrac(e % Pow2(LogBits), 1)
    IN IF n > 21 THEN 0 ELSE (x * 15625) \div (512 * Pow2(n))

\* Math.pow(10, -6 * Math.log2(frequency / nyquist) / 20) in millionths:
\* 10^(-0.3 L) = 2^(-0.3 log2(10) L), and 0.3 log2(10) = 0.99657843 = 65311 / 65536
RawPowerLoss(frequency, sampleRate) ==
    LET l == Log2Ratio(2 * frequency, sampleRate)
    IN Exp2Neg((l * 65311) \div 65536)

\* Math.max(0.0001, Math.min(1.0, powerLoss)), line 46
ClampPowerLoss(powerLoss) ==
    LET upper == IF powerLoss < 1000000 THEN powerLoss ELSE 1000000
    IN IF upper > 100 THEN upper ELSE 100

\* the fold without the reflection about nyquist
FoldFrequencyUnreflected(frequency, sampleRate) == frequency % sampleRate

\* lines 32-33: frequency % (2 * nyquist), reflected about nyquist
FoldFrequency(frequency, sampleRate) ==
    LET foldedFreq == frequency % sampleRate
    IN IF 2 * foldedFreq > sampleRate THEN sampleRate - foldedFreq ELSE foldedFreq

\* the aliasing model with nyquist taken as sampleRate / 4
applyAliasingQuarterRate(frequency, sampleRate) ==
    IF 4 * frequency <= sampleRate
    THEN [frequency |-> frequency, powerLoss |-> 1000000]
    ELSE IF 2 * frequency <= sampleRate
    THEN [frequency |-> FoldFrequency(frequency, sampleRate \div 2),
          powerLoss |-> ClampPowerLoss(RawPowerLoss(2 * frequency, sampleRate))]
    ELSE [frequency |-> FoldFrequency(frequency, sampleRate),
          powerLoss |-> ClampPowerLoss(RawPowerLoss(frequency, sampleRate))]

\* applyAliasing, lines 25-49, for a frequency and a sample rate in one unit;
\* powerLoss in millionths
applyAliasing(frequency, sampleRate) ==
    IF 2 * frequency <= sampleRate
    THEN [frequency |-> frequency, powerLoss |-> 1000000]
    ELSE [frequency |-> FoldFrequency(frequency, sampleRate),
          powerLoss |-> ClampPowerLoss(RawPowerLoss(frequency, sampleRate))]

----------------------------------------------------------------------------
(* Fixed-point helpers for the Block Processor.  Samples are in millionths; *)
(* a phase is an integer number of 1/441000000 cycle, so that one sample    *)
(* period of a frequency of 0.001 Hz is 10 phase units and one thousandth   *)
(* of a degree is 1225.                                                     *)

Cycle == 441 * 1000 * 1000

Sign(x) == IF x < 0 THEN -1 ELSE 1

\* <<floor(a * b / c), (a * b) mod c>> for 0 <= a < c, b >= 0, by the digits of
\* b: three bits at a time where 15 c stays below 2^31, else one bit at a time
Radix(c) == IF c <= 143000000 THEN 8 ELSE 2

DivModStep(q, r, c) == <<Radix(c) * q + (r \div c), r % c>>

MulDivModStep(h, a, digit, c) == DivModStep(h[1], Radix(c) * h[2] + digit * a, c)

RECURSIVE MulDivMod(_, _, _)
MulDivMod(a, b, c) ==
    IF a = 0 \/ b = 0 THEN <<0, 0>>
    ELSE MulDivModStep(MulDivMod(a, b \div Radix(c), c), a, b % Radix(c), c)

\* a * b / c, truncated toward zero, for c > 0 (x and y are bound to the values
\* of a and b, so that each is evaluated once)
MulDiv(a, b, c) ==
    CHOOSE r \in {Sign(x) * Sign(y) * ((Abs(x) \div c) * Abs(y)
                                       + MulDivMod(Abs(x) % c, Abs(y), c)[1]) :
                  x \in {a}, y \in {b}} : TRUE

\* (a * b) mod c for a, b >= 0
MulMod(a, b, c) == CHOOSE r \in {MulDivMod(x % c, y, c)[2] : x \in {a}, y \in {b}} : TRUE

\* JavaScript's x % 1 of the phase x = ph / Cycle keeps the sign of x
PhaseFrac(ph) == ph % Cycle

\* Math.sin(2 pi ph / Cycle) in 1/16384, 0 <= ph < Cycle, by Bhaskara's formula
\* sin(pi q) = 16 q (1 - q) / (5 - 4 q (1 - q)) on the half cycle, q in 1/4096:
\* exact at 0, 1/4, 1/2 and 3/4 of a cycle, within 0.003 elsewhere
SinHalf(q) ==
    LET u == (q * (4096 - q)) \div 4
        den == 5 * 1048576 - u
    IN IF 4 * u >= den THEN 16384 ELSE FracBits(4 * u, den, 14)

Sin(ph) ==
    LET half == Cycle \div 2
        p == ph % Cycle
    IN IF p < half
       THEN SinHalf(MulDiv(p, 4096, half))
       ELSE -SinHalf(MulDiv(p - half, 4096, half))

Cos(ph) == Sin(ph + Cycle \div 4)

\* Math.pow(10, gainDb / 20) in millionths, gainDb in thousandths of a dB:
\* 10^(g/20) = 2^(g log2(10) / 20), and log2(10) / 20 = 0.166096 = 17008 / 102400
GainOf(gainDb) ==
    LET e == MulDiv(Abs(gainDb), 17008, 100000)
    IN IF gainDb <= 0
       THEN Exp2Neg(e)
       ELSE LET n == (e \div Pow2(LogBits)) + 1
            IN Pow2(n) * Exp2Neg(n * Pow2(LogBits) - e)

----------------------------------------------------------------------------
(* Noise Generator, dsp-processing.ts lines 4-22.  Math.random is a         *)
(* pseudo-random sequence fixed by a seed the program cannot see: draw k of *)
(* seed s is one of -1, 0, 1 (for Math.random() * 2 - 1).  The filter state *)
(* b0, b1, b2 is in 10^-9.                                                  *)

Random(seed, k) == ((seed + 2 * k + (k \div 3)) % 3) - 1

NewNoiseGenerator(seed) ==
    [pinkNoiseb0 |-> 0, pinkNoiseb1 |-> 0, pinkNoiseb2 |-> 0, seed |-> seed, draws |-> 0]

\* generateWhite: <<sample in 10^-9, generator after>>
generateWhite(gen) ==
    <<Random(gen.seed, gen.draws) * 10000000, [gen EXCEPT !.draws = @ + 1]>>

\* generatePink: <<sample in 10^-9, generator after>>
generatePink(gen) ==
    LET w == generateWhite(gen)
        r == Random(gen.seed, gen.draws)
        b0 == gen.pinkNoiseb0 - MulDiv(gen.pinkNoiseb0, 114, 100000) + r * 555179
        b1 == gen.pinkNoiseb1 - MulDiv(gen.pinkNoiseb1, 668, 100000) + r * 750759
        b2 == gen.pinkNoiseb2 - MulDiv(gen.pinkNoiseb2, 31, 1000) + r * 1538520
    IN <<(b0 + b1 + b2 + r * 5362000) \div 100,
         [w[2] EXCEPT !.pinkNoiseb0 = b0, !.pinkNoiseb1 = b1, !.pinkNoiseb2 = b2]>>

----------------------------------------------------------------------------
(* Block Processor: processBlock, dsp-processing.ts lines 51-351.           *)
(* A buffer is a sequence of samples; sample i of the code is element i + 1.*)
(* A sample is an integer in millionths, or NaN.                            *)

NaN == -(Pow2(30) + (Pow2(30) - 1))

SAdd(a, b) == IF a = NaN \/ b = NaN THEN NaN ELSE a + b

Val(block, name) == block.parameters[name].value

\* time + i / SAMPLE_RATE in 1/441000 s, time in ms
SampleTime(time, i) == time * 441 + 10 * i

\* a frequency in thousandths of a Hz as phase units per 1/441000 s, mod one cycle
FreqPhase(f) == (MulMod(f[1] % Cycle, Giga % Cycle, Cycle) + f[2]) % Cycle

\* (freq * t) % 1 as a phase, t = n / 441000 s >= 0
PhaseAt(f, n) == MulMod(FreqPhase(f), n, Cycle)

\* applyAliasing(frequency, SAMPLE_RATE) for a frequency in thousandths of a Hz:
\* the folded frequency is exact; the power loss is taken on the frequency in
\* 0.01 Hz below 1 MHz and in 100 Hz above
BlockAliasing(f) ==
    LET rate == SAMPLE_RATE * 1000
        nyquist == Milli(rate \div 2)
        folded == (MulMod(f[1], Giga % rate, rate) + f[2]) % rate
        loss == IF f[1] = 0
                THEN applyAliasing(f[2] \div 10, SAMPLE_RATE * 100).powerLoss
                ELSE applyAliasing(f[1] * 10000 + (f[2] \div 100000),
                                   SAMPLE_RATE \div 100).powerLoss
    IN IF NumLE(f, nyquist)
       THEN [frequency |-> f, powerLoss |-> 1000000]
       ELSE [frequency |-> Milli(IF 2 * folded > rate THEN rate - folded ELSE folded),
             powerLoss |-> loss]

\* amp * gain * powerLoss in millionths (amp in thousandths, the others in millionths)
Level(amp, gain, powerLoss) == MulDiv(MulDiv(amp * 1000, gain, 1000000), powerLoss, 1000000)

\* lines 57-74: no aliasing, powerLoss 1.0
SineSample(block, time, i) ==
    LET ph == PhaseAt(Val(block, "frequency"), SampleTime(time, i))
              + MilliOf(Val(block, "phase")) * 1225
        level == Level(MilliOf(Val(block, "amplitude")),
                       GainOf(MilliOf(Val(block, "gain"))), 1000000)
    IN MulDiv(level, Sin(ph), 16384)

\* lines 76-93: no aliasing, no amplitude
SquareSample(block, time, i) ==
    LET ph == PhaseAt(Val(block, "frequency"), SampleTime(time, i))
        gain == GainOf(MilliOf(Val(block, "gain")))
    IN IF ph < MilliOf(Val(block, "dutyCycle")) * 441000 THEN gain ELSE -gain

\* lines 95-110
SawtoothSample(block, time, i) ==
    LET al == BlockAliasing(Val(block, "frequency"))
        ph == (PhaseAt(al.frequency, SampleTime(time, i))
               + MilliOf(Val(block, "phase")) * 1225) % Cycle
        level == Level(MilliOf(Val(block, "amplitude")),
                       GainOf(MilliOf(Val(block, "gain"))), al.powerLoss)
    IN MulDiv(level, 2 * ph - Cycle, Cycle)

\* lines 112-127
TriangleSample(block, time, i) ==
    LET al == BlockAliasing(Val(block, "frequency"))
        ph == (PhaseAt(al.frequency, SampleTime(time, i))
               + MilliOf(Val(block, "phase")) * 1225) % Cycle
        level == Level(MilliOf(Val(block, "amplitude")),
                       GainOf(MilliOf(Val(block, "gain"))), al.powerLoss)
    IN IF 2 * ph < Cycle
       THEN MulDiv(level, 4 * ph - Cycle, Cycle)
       ELSE MulDiv(level, 3 * Cycle - 4 * ph, Cycle)

\* lines 129-144
PulseSample(block, time, i) ==
    LET al == BlockAliasing(Val(block, "frequency"))
        ph == PhaseAt(al.frequency, SampleTime(time, i))
        level == Level(MilliOf(Val(block, "amplitude")),
                       GainOf(MilliOf(Val(block, "gain"))), al.powerLoss)
    IN IF ph < MilliOf(Val(block, "width")) * 441000 THEN level ELSE 0

\* lines 146-163, for start and end frequencies below 1 MHz
ChirpSample(block, time, i) ==
    LET n == SampleTime(time, i)
        startFreq == MilliOf(Val(block, "startFreq"))
        endFreq == MilliOf(Val(block, "endFreq"))
        duration == MilliOf(Val(block, "duration")) * 441
        currentFreq == startFreq + MulDiv(endFreq - startFreq, n % duration, duration)
        al == BlockAliasing(Milli(currentFreq))
        level == Level(MilliOf(Val(block, "amplitude")),
                       GainOf(MilliOf(Val(block, "gain"))), al.powerLoss)
    IN MulDiv(level, Sin(PhaseAt(al.frequency, n)), 16384)

GeneratorSample(block, time, i) ==
    CASE block.type = "sine" -> SineSample(block, time, i)
      [] block.type = "square" -> SquareSample(block, time, i)
      [] block.type = "sawtooth" -> SawtoothSample(block, time, i)
      [] block.type = "triangle" -> TriangleSample(block, time, i)
      [] block.type = "pulse" -> PulseSample(block, time, i)
      [] block.type = "chirp" -> ChirpSample(block, time, i)

GeneratorTypes == {"sine", "square", "sawtooth", "triangle", "pulse", "chirp"}

\* output[i] = input[i] + contribution, for every i
\* a generator that overwrites the buffer with its own samples
GeneratorOutputOverwrite(block, input, time) ==
    [k \in 1..Len(input) |-> GeneratorSample(block, time, k - 1)]

GeneratorOutput(block, input, time) ==
    [k \in 1..Len(input) |-> SAdd(input[k], GeneratorSample(block, time, k - 1))]

\* A loop that carries a state from one sample to the next: Step(state, x) is
\* <<output sample, state after>>.  The buffer is processed in halves, which is
\* the loop's order; the result is <<output buffer, state after>>.
Join(left, right) == <<left[1] \o right[1], right[2]>>

One(r) == <<<<r[1]>>, r[2]>>

RECURSIVE Scan(_, _, _, _, _)
Scan(Step(_, _), input, lo, hi, state) ==
    IF lo > hi THEN <<<<>>, state>>
    ELSE IF lo = hi THEN One(Step(state, input[lo]))
    ELSE LET mid == (lo + hi) \div 2
         IN CHOOSE r \in UNION {{Join(left, right) :
                                   right \in {Scan(Step, input, mid + 1, hi, left[2])}} :
                                 left \in {Scan(Step, input, lo, mid, state)}} : TRUE

\* lines 165-176: one draw per sample, white when type === 0, else pink
NoiseStep(block, gen, x) ==
    LET d == IF Val(block, "type") = Milli(0)
             THEN generateWhite(gen) ELSE generatePink(gen)
    IN <<SAdd(x, MulDiv(d[1], MilliOf(Val(block, "intensity")), 1000000)), d[2]>>

NoiseOutput(block, input, gen) ==
    Scan(LAMBDA g, x : NoiseStep(block, g, x), input, 1, Len(input), gen)

\* Direct Form I, lines 194-206: co = <<b0, b1, b2, a0, a1, a2>> in one common
\* unit, state = <<x1, x2, y1, y2>>
BiquadStep(co, state, x0) ==
    LET y0 == IF x0 = NaN \/ NaN \in {state[k] : k \in 1..4} \/ NaN \in {co[k] : k \in 1..6}
              THEN NaN
              ELSE MulDiv(x0, co[1], co[4]) + MulDiv(state[1], co[2], co[4])
                   + MulDiv(state[2], co[3], co[4]) - MulDiv(state[3], co[5], co[4])
                   - MulDiv(state[4], co[6], co[4])
    IN CHOOSE r \in {<<y, <<x0, state[1], y, state[3]>>>> : y \in {y0}} : TRUE

Biquad(co, input) ==
    Scan(LAMBDA st, x : BiquadStep(co, st, x), input, 1, Len(input), <<0, 0, 0, 0>>)[1]

\* Math.min(originalCutoff, SAMPLE_RATE / 2.1) as a phase: omega / (2 pi) cycles
OmegaPhase(freq) == MilliOf(NumMin(freq, Units(21000))) * 10

\* the lowpass coefficients without the damping term alpha
LowpassCoefficientsUndamped(block) ==
    LET cos == Cos(OmegaPhase(Val(block, "cutoff")))
    IN <<16384 - cos, 2 * (16384 - cos), 16384 - cos, 2 * 16384, -4 * cos, 2 * 16384>>

\* lines 178-208, coefficients in 1/32768 (twice the code's, in 1/16384)
LowpassCoefficients(block) ==
    LET omega == OmegaPhase(Val(block, "cutoff"))
        sin == Sin(omega)
        cos == Cos(omega)
        alpha == MulDiv(sin, 1000, 2 * MilliOf(Val(block, "resonance")))
    IN <<16384 - cos, 2 * (16384 - cos), 16384 - cos,
         2 * (16384 + alpha), -4 * cos, 2 * (16384 - alpha)>>

\* lines 210-240
HighpassCoefficients(block) ==
    LET omega == OmegaPhase(Val(block, "cutoff"))
        sin == Sin(omega)
        cos == Cos(omega)
        alpha == MulDiv(sin, 1000, 2 * MilliOf(Val(block, "resonance")))
    IN <<16384 + cos, -2 * (16384 + cos), 16384 + cos,
         2 * (16384 + alpha), -4 * cos, 2 * (16384 - alpha)>>

\* Math.sinh's argument (Math.log(2) / 2) * bandwidth * omega / sin in 1/1024,
\* for a bandwidth below SinhOverflow Hz.  omega / sin is 1 when sin rounds to 0.
SinhArg(bandwidth, omega) ==
    LET sin == Sin(omega)
        rad == MulDiv(omega, 102944, Cycle)
        bw == MulDiv(MilliOf(bandwidth), 355, 1000)
    IN IF sin <= 0 THEN bw ELSE MulDiv(bw, rad, sin)

\* Math.sinh overflows to Infinity from 710.4758 on: (Math.log(2) / 2) * 2050 Hz
\* with omega / sin >= 1
SinhOverflow == Units(2050)

SinhIsInfinite(bandwidth, omega) ==
    \/ ~NumLE(bandwidth, SinhOverflow)
    \/ SinhArg(bandwidth, omega) >= 727527

\* Math.sinh(arg / 1024) in 1/16384 while it is below 2^14; Huge above, where
\* 1 + alpha and alpha are the same double for the filter's purposes
Huge == 0 - 1

Sinh(arg) ==
    LET e == MulDiv(arg, 1477, 1024)
        n == (e \div Pow2(LogBits)) + 1
    IN IF n > 14 THEN Huge
       ELSE MulDiv(Exp2Neg(n * Pow2(LogBits) - e), Pow2(n) * 8192, 1000000)
            - MulDiv(Exp2Neg(e), 8192, 1000000)

Infinite == <<NaN, NaN, NaN, NaN, NaN, NaN>>

\* lines 242-273.  alpha = Infinity makes every y0 NaN (Infinity * 0 on the
\* first sample); a huge finite alpha leaves y0 = x0 - x2 + y2.
BandpassCoefficients(block) ==
    LET omega == OmegaPhase(Val(block, "centerFreq"))
        bandwidth == Val(block, "bandwidth")
        sinh == Sinh(SinhArg(bandwidth, omega))
        alpha == MulDiv(Sin(omega), sinh, 16384)
    IN IF SinhIsInfinite(bandwidth, omega) THEN Infinite
       ELSE IF sinh = Huge THEN <<1, 0, -1, 1, 0, -1>>
       ELSE <<alpha, 0, -alpha, 16384 + alpha, -2 * Cos(omega), 16384 - alpha>>

\* lines 275-306.  A huge finite alpha * depth leaves y0 = y2 (+ x terms / a0 = 0).
NotchCoefficients(block) ==
    LET omega == OmegaPhase(Val(block, "centerFreq"))
        bandwidth == Val(block, "bandwidth")
        sinh == Sinh(SinhArg(bandwidth, omega))
        alpha == MulDiv(MulDiv(Sin(omega), sinh, 16384), MilliOf(Val(block, "depth")), 1000)
    IN IF SinhIsInfinite(bandwidth, omega) THEN Infinite
       ELSE IF sinh = Huge THEN <<0, 0, 0, 1, 0, -1>>
       ELSE <<16384, -2 * Cos(omega), 16384, 16384 + alpha, -2 * Cos(omega), 16384 - alpha>>

\* Math.round of a number in thousandths
Round(x) == (MilliOf(x) + 500) \div 1000

\* input[index] || 0: undefined (past the end), NaN and 0 all give 0
OrZero(input, index) ==
    IF index < 0 \/ index >= Len(input) \/ input[index + 1] = NaN THEN 0
    ELSE input[index + 1]

\* lines 313-325
LinearSample(input, resolution, i) ==
    LET baseIndex == (i * resolution) \div Len(input)
        rem == (i * resolution) % Len(input)
    IN IF baseIndex + 1 < Len(input)
       THEN IF input[baseIndex + 1] = NaN \/ input[baseIndex + 2] = NaN THEN NaN
            ELSE input[baseIndex + 1]
                 + MulDiv(input[baseIndex + 2] - input[baseIndex + 1], rem, Len(input))
       ELSE OrZero(input, baseIndex)

\* lines 326-333: t = i / (length - 1) is NaN for a buffer of one sample, and
\* input[NaN] is undefined
SplineSample(input, smoothing, i) ==
    LET last == Len(input) - 1
        sin == Sin(MulDiv(i, Cycle \div 2, last))
        scaled == i * smoothing + MulDiv((1000 - smoothing) * last, sin, 51472)
    IN IF last = 0 THEN 0 ELSE OrZero(input, scaled \div 1000)

\* lines 334-342: Math.pow(t, 1 + smoothing) = 2^-((1 + smoothing) log2(1 / t))
PolynomialSample(input, smoothing, i) ==
    LET last == Len(input) - 1
        e == MulDiv(Log2Ratio(last, i), 1000 + smoothing, 1000)
        index == (Exp2Neg(e) * last) \div 1000000
    IN IF last = 0 \/ i = 0 THEN OrZero(input, 0) ELSE OrZero(input, index)

InterpolateOutput(block, input) ==
    LET method == Round(Val(block, "method"))
        resolution == Round(Val(block, "resolution"))
        smoothing == MilliOf(Val(block, "smoothing"))
    IN [k \in 1..Len(input) |->
          IF method = 0 THEN LinearSample(input, resolution, k - 1)
          ELSE IF method = 1 THEN SplineSample(input, smoothing, k - 1)
          ELSE PolynomialSample(input, smoothing, k - 1)]

FilterTypes == {"lowpass", "highpass", "bandpass", "notch"}

FilterCoefficients(block) ==
    CASE block.type = "lowpass" -> LowpassCoefficients(block)
      [] block.type = "highpass" -> HighpassCoefficients(block)
      [] block.type = "bandpass" -> BandpassCoefficients(block)
      [] block.type = "notch" -> NotchCoefficients(block)

\* block.parameters.<name>.value of a parameter the block does not have
\* throws a TypeError
Throws(block) ==
    /\ block.enabled
    /\ block.type \in BlockTypes
    /\ ~(ParamsRead(block.type) \subseteq DOMAIN block.parameters)

\* the block processor without its test of block.enabled
processBlockAlways(block, input, time, gen) ==
    IF block.type \notin BlockTypes
    THEN [threw |-> FALSE, output |-> input, same |-> TRUE, gen |-> gen, read |-> {}]
    ELSE IF ~(ParamsRead(block.type) \subseteq DOMAIN block.parameters)
    THEN [threw |-> TRUE, output |-> <<>>, same |-> FALSE, gen |-> gen,
          read |-> ParamsRead(block.type) \cap DOMAIN block.parameters]
    ELSE [threw |-> FALSE,
          output |-> IF block.type \in GeneratorTypes
                     THEN GeneratorOutput(block, input, time)
                     ELSE IF block.type = "noise" THEN NoiseOutput(block, input, gen)[1]
                     ELSE IF block.type \in FilterTypes
                     THEN Biquad(FilterCoefficients(block), input)
                     ELSE InterpolateOutput(block, input),
          same |-> FALSE,
          gen |-> IF block.type = "noise" THEN NoiseOutput(block, input, gen)[2] ELSE gen,
          read |-> ParamsRead(block.type)]

\* processBlock, lines 51-351.  The result records what the caller can observe:
\* whether the call threw, the returned buffer, whether the returned array is the
\* input array itself (not a copy), the noise generator after the call, and the
\* parameters whose value was read.
processBlock(block, input, time, gen) ==
    IF ~block.enabled
    THEN [threw |-> FALSE, output |-> input, same |-> TRUE, gen |-> gen, read |-> {}]
    ELSE IF block.type \notin BlockTypes
    THEN [threw |-> FALSE, output |-> input, same |-> TRUE, gen |-> gen, read |-> {}]
    ELSE IF Throws(block)
    THEN [threw |-> TRUE, output |-> <<>>, same |-> FALSE, gen |-> gen,
          read |-> ParamsRead(block.type) \cap DOMAIN block.parameters]
    ELSE LET noise == NoiseOutput(block, input, gen)
         IN [threw |-> FALSE,
             output |-> IF block.type \in GeneratorTypes
                        THEN GeneratorOutput(block, input, time)
                        ELSE IF block.type = "noise" THEN noise[1]
                        ELSE IF block.type \in FilterTypes
                        THEN Biquad(FilterCoefficients(block), input)
                        ELSE InterpolateOutput(block, input),
             same |-> FALSE,
             gen |-> IF block.type = "noise" THEN noise[2] ELSE gen,
             read |-> ParamsRead(block.type)]

----------------------------------------------------------------------------
(* JavaScript Map, as the sequence of its entries [key, ...] in insertion    *)
(* order: set on a present key replaces the value where it stands, set on an *)
(* absent key appends, keys().next().value is the first entry's key.         *)

MapIndex(map, key) ==
    IF \E k \in 1..Len(map) : map[k].key = key
    THEN CHOOSE k \in 1..Len(map) : map[k].key = key
    ELSE 0

MapHas(map, key) == MapIndex(map, key) # 0

MapGet(map, key) == map[MapIndex(map, key)]

MapSet(map, entry) ==
    IF MapHas(map, entry.key)
    THEN [map EXCEPT ![MapIndex(map, entry.key)] = entry]
    ELSE Append(map, entry)

MapDelete(map, key) ==
    SelectSeq(map, LAMBDA e : e.key # key)

MapKeys(map) == {map[k].key : k \in 1..Len(map)}

----------------------------------------------------------------------------
(* Signal Chain Evaluator: processWaveformLine, dsp-processing.ts 354-410 *)

\* line 401: if (waveformCache.size > 100)
WaveformCacheLimit == 100

\* line 365: Math.floor(time * 20) / 20, as the number of the 0.05 s bucket
RoundedTime(time) == time \div 50

\* line 366: line id, every block's type, parameters and enabled flag (not the
\* block's id), and the rounded time
CacheKey(line, time) ==
    [id |-> line.id,
     blocks |-> [k \in 1..Len(line.blocks) |->
                   [type |-> line.blocks[k].type,
                    params |-> line.blocks[k].parameters,
                    enabled |-> line.blocks[k].enabled]],
     roundedTime |-> RoundedTime(time)]

\* the hit test without its tolerance: the very time only
CacheHitSameTime(cache, key, time) ==
    /\ \E k \in 1..Len(cache) : cache[k].key = key
    /\ \A k \in 1..Len(cache) : cache[k].key = key => cache[k].time = time

\* the hit test without the time: the key only
CacheHitAnyTime(cache, key, time) ==
    \E k \in 1..Len(cache) : cache[k].key = key

\* line 370: cached && Math.abs(cached.time - time) < 0.025
CacheHit(cache, key, time) ==
    /\ MapHas(cache, key)
    /\ Abs(MapGet(cache, key).time - time) < 25

\* lines 374-378: the chain folded over the blocks, from a zero signal.  The
\* result is [threw, signal, gen].
RECURSIVE RunChain(_, _, _, _, _)
RunChain(blocks, k, signal, time, gen) ==
    IF k > Len(blocks) THEN [threw |-> FALSE, signal |-> signal, gen |-> gen]
    ELSE CHOOSE r \in {IF b.threw THEN [threw |-> TRUE, signal |-> <<>>, gen |-> b.gen]
                       ELSE RunChain(blocks, k + 1, b.output, time, b.gen) :
                       b \in {processBlock(blocks[k], signal, time, gen)}} : TRUE

ZeroSignal == [k \in 1..DISPLAY_SAMPLES |-> 0]

\* lines 382-388: abs > maxAmp is false for NaN
MaxAmp(signal) ==
    LET amps == {Abs(signal[k]) : k \in {j \in 1..Len(signal) : signal[j] # NaN}}
                \cup {1000}
    IN CHOOSE m \in amps : \A a \in amps : a <= m

\* the sample drawn at full scale, without adaptiveScale
ScaledFull(sample, maxAmp) == sample

\* line 392 applied to one sample: signal[i] * adaptiveScale, in millionths
Scaled(sample, maxAmp) ==
    IF sample = NaN THEN NaN
    ELSE IF maxAmp <= 1000000 THEN MulDiv(sample, 2, 5)
    ELSE MulDiv(sample, 400000, IF maxAmp < 100000000 THEN maxAmp ELSE 100000000)

\* lines 393-398: x = i / DISPLAY_SAMPLES as <<i, DISPLAY_SAMPLES>>, y in millionths
DisplayPoints(signal) ==
    LET maxAmp == CHOOSE m \in {MaxAmp(signal)} : TRUE
    IN [k \in 1..Len(signal) |->
          [x |-> <<k - 1, DISPLAY_SAMPLES>>,
           y |-> IF signal[k] = NaN THEN NaN ELSE 500000 - Scaled(signal[k], maxAmp)]]

\* lines 357-362
MutedPoints ==
    [k \in 1..DISPLAY_SAMPLES |-> [x |-> <<k - 1, DISPLAY_SAMPLES>>, y |-> 500000]]

\* Arrays are objects: a points array is named by a number that no array alive
\* at its allocation carries (the arrays held by the cache and by the caller).
\* Its 512 points are a function of how it was made, PointsOf.
FreshObject(cache, live) ==
    LET used == {cache[k].points : k \in 1..Len(cache)} \cup live
    IN CHOOSE n \in 0..Cardinality(used) :
         n \notin used /\ \A m \in 0..Cardinality(used) : m \notin used => n <= m

KeyBlocks(line) == CacheKey(line, 0).blocks

Idle == NewNoiseGenerator(0)

MutedArray(obj) ==
    [obj |-> obj, muted |-> TRUE, blocks |-> <<>>, time |-> 0, gen |-> Idle]

ComputedArray(obj, blocks, time, gen) ==
    [obj |-> obj, muted |-> FALSE, blocks |-> blocks, time |-> time, gen |-> gen]

NoArray == MutedArray(0 - 1)

\* the chain needs evaluating to know the call's effect only when a block draws
\* noise or throws
HasEffect(line) ==
    \E k \in 1..Len(line.blocks) :
       \/ Throws(line.blocks[k])
       \/ line.blocks[k].enabled /\ line.blocks[k].type = "noise"

ChainEffect(line, time, gen) ==
    IF HasEffect(line)
    THEN CHOOSE e \in {[threw |-> r.threw, gen |-> r.gen] :
                       r \in {RunChain(line.blocks, 1, ZeroSignal, time, gen)}} : TRUE
    ELSE [threw |-> FALSE, gen |-> gen]

\* the blocks of a cache key run as a chain (a key holds all but the blocks' ids)
PointsOf(array) ==
    IF array.muted THEN MutedPoints
    ELSE LET blocks == [k \in 1..Len(array.blocks) |->
                          [id |-> "", type |-> array.blocks[k].type,
                           parameters |-> array.blocks[k].params,
                           enabled |-> array.blocks[k].enabled]]
         IN DisplayPoints(RunChain(blocks, 1, ZeroSignal, array.time, array.gen).signal)

\* lines 400-407: the size test comes before the set, and does not look at
\* whether the key is present
StoreEntry(cache, entry) ==
    IF Len(cache) > WaveformCacheLimit
    THEN MapSet(MapDelete(cache, cache[1].key), entry)
    ELSE MapSet(cache, entry)

EvictedBy(cache) ==
    IF Len(cache) > WaveformCacheLimit THEN <<cache[1].key>> ELSE <<>>

\* lines 374-409: the chain runs; if no block throws, the new array is stored
\* under the request's key with the request's time
Recompute(line, time, cache, gen, obj) ==
    CHOOSE r \in
      {IF effect.threw
       THEN [threw |-> TRUE, hit |-> FALSE, read |-> TRUE, result |-> NoArray,
             cache |-> cache, gen |-> effect.gen, deleted |-> <<>>]
       ELSE [threw |-> FALSE, hit |-> FALSE, read |-> TRUE,
             result |-> ComputedArray(obj, KeyBlocks(line), time, gen),
             cache |-> StoreEntry(cache, [key |-> CacheKey(line, time), time |-> time,
                                          points |-> obj, gen |-> gen]),
             gen |-> effect.gen, deleted |-> EvictedBy(cache)] :
       effect \in {ChainEffect(line, time, gen)}} : TRUE

\* the evaluator looking into the cache before it looks at line.muted
processWaveformLineCacheFirst(line, time, cache, gen, live) ==
    IF CacheHit(cache, CacheKey(line, time), time)
    THEN [threw |-> FALSE, hit |-> TRUE, read |-> TRUE,
          result |-> ComputedArray(MapGet(cache, CacheKey(line, time)).points,
                                   KeyBlocks(line),
                                   MapGet(cache, CacheKey(line, time)).time,
                                   MapGet(cache, CacheKey(line, time)).gen),
          cache |-> cache, gen |-> gen, deleted |-> <<>>]
    ELSE IF line.muted
    THEN [threw |-> FALSE, hit |-> FALSE, read |-> TRUE,
          result |-> MutedArray(FreshObject(cache, live)),
          cache |-> cache, gen |-> gen, deleted |-> <<>>]
    ELSE Recompute(line, time, cache, gen, FreshObject(cache, live))

\* processWaveformLine(line, time) with the module state it reads and writes.
\* live: the arrays the caller still holds.  The result records whether the call
\* threw, whether it returned the cached array, whether it looked into the cache,
\* the array returned, the cache and the noise generator after the call, and the
\* keys it deleted.
processWaveformLine(line, time, cache, gen, live) ==
    LET key == CacheKey(line, time)
    IN IF line.muted
       THEN [threw |-> FALSE, hit |-> FALSE, read |-> FALSE,
             result |-> MutedArray(FreshObject(cache, live)),
             cache |-> cache, gen |-> gen, deleted |-> <<>>]
       ELSE IF CacheHit(cache, key, time)
       THEN [threw |-> FALSE, hit |-> TRUE, read |-> TRUE,
             result |-> ComputedArray(MapGet(cache, key).points, key.blocks,
                                      MapGet(cache, key).time, MapGet(cache, key).gen),
             cache |-> cache, gen |-> gen, deleted |-> <<>>]
       ELSE Recompute(line, time, cache, gen, FreshObject(cache, live))

----------------------------------------------------------------------------
(* The caller: the store's line list and clock, src/unnamed/part_004        *)
(* (hooks/use-dsp-store), and the screen that re-evaluates the line whenever *)
(* either changes (app/tabs/index.tsx line 37).                              *)

\* addBlock, lines 178-197: a block made from its type's template
NewBlock(id, type) ==
    [id |-> id, type |-> type, parameters |-> BLOCK_TEMPLATES[type], enabled |-> TRUE]

\* addWaveformLine, lines 137-155, followed by addBlock
NewLine(id, blocks) ==
    [id |-> id, blocks |-> blocks, muted |-> FALSE, visible |-> TRUE]

\* updateBlockParameter storing the requested value as it comes
updateBlockParameterUnclamped(lines, lineId, blockId, paramName, value) ==
    [l \in 1..Len(lines) |->
       IF lines[l].id # lineId THEN lines[l]
       ELSE [lines[l] EXCEPT !.blocks =
               [b \in 1..Len(lines[l].blocks) |->
                  LET block == lines[l].blocks[b]
                  IN IF block.id # blockId \/ paramName \notin DOMAIN block.parameters
                     THEN block
                     ELSE [block EXCEPT !.parameters[paramName].value = value]]]]

\* updateBlockParameter, lines 213-243: the value is clamped to [min, max]; an
\* unknown line, block or parameter changes nothing
updateBlockParameter(lines, lineId, blockId, paramName, value) ==
    [l \in 1..Len(lines) |->
       IF lines[l].id # lineId THEN lines[l]
       ELSE [lines[l] EXCEPT !.blocks =
               [b \in 1..Len(lines[l].blocks) |->
                  LET block == lines[l].blocks[b]
                  IN IF block.id # blockId \/ paramName \notin DOMAIN block.parameters
                     THEN block
                     ELSE [block EXCEPT !.parameters[paramName].value =
                             NumMax(block.parameters[paramName].min,
                                    NumMin(block.parameters[paramName].max, value))]]]]

\* toggleMute, lines 266-276
toggleMute(lines, lineId) ==
    [l \in 1..Len(lines) |->
       IF lines[l].id # lineId THEN lines[l]
       ELSE [lines[l] EXCEPT !.muted = ~lines[l].muted]]

NumAdd(a, b) == Milli(MilliOf(a) + MilliOf(b))

\* The slider the caller moves, one step at a time, at most MaxSteps steps up
MaxSteps == 101

FrameMs == 20

MaxFrames == 2

MaxEvictions == 3

Slider == "phase"

Moved(lines) == MilliOf(Val(lines[1].blocks[1], Slider))
                  \div MilliOf(lines[1].blocks[1].parameters[Slider].step)

\* One evaluation of the first line at the given time, as the screen does after
\* a change: the arrays alive are the cache's and the one returned last.
Evaluate(lines, time) ==
    \E r \in {processWaveformLine(lines[1], time, waveformCache, noiseGen,
                                   {call.result.obj})} :
       /\ waveformLines' = lines
       /\ currentTime' = time
       /\ waveformCache' = r.cache
       /\ noiseGen' = r.gen
       /\ evicted' = evicted \o r.deleted
       /\ call' = [op |-> "processWaveformLine", line |-> lines[1], time |-> time,
                   threw |-> r.threw, hit |-> r.hit, read |-> r.read,
                   result |-> r.result,
                   before |-> [op |-> call.op, line |-> call.line, time |-> call.time,
                               result |-> call.result]]
       /\ UNCHANGED <<fftCache, pure>>

\* call.before is the call before it
NoCall ==
    [op |-> "none", line |-> NewLine("", <<>>), time |-> 0, threw |-> FALSE,
     hit |-> FALSE, read |-> FALSE, result |-> NoArray,
     before |-> [op |-> "none", line |-> NewLine("", <<>>), time |-> 0,
                 result |-> NoArray]]

Init ==
    /\ waveformCache = <<>>
    /\ fftCache = <<>>
    /\ noiseGen = NewNoiseGenerator(0)
    /\ waveformLines = <<NewLine("1", <<NewBlock("b1", "sine")>>)>>
    /\ currentTime = 0
    /\ evicted = <<>>
    /\ call = NoCall
    /\ pure = <<>>

\* The caller's protocol: the screen draws once before anything is changed; the
\* slider is moved while the clock stands and the line is shown; the line is
\* muted or shown, and the clock runs, with the slider at its minimum; the run
\* ends after MaxEvictions evictions.
Mounted == call.op # "none"

Running == Len(evicted) < MaxEvictions

AtRest == Mounted /\ Running /\ Moved(waveformLines) = 0

Sliding == Mounted /\ Running /\ currentTime = 0 /\ ~waveformLines[1].muted

\* the screen draws what the store holds
Redraw ==
    /\ Running
    /\ Evaluate(waveformLines, currentTime)

\* the slider one step up
StepUp ==
    /\ Sliding
    /\ Moved(waveformLines) < MaxSteps
    /\ LET block == waveformLines[1].blocks[1]
       IN Evaluate(updateBlockParameter(waveformLines, "1", "b1", Slider,
                       NumAdd(Val(block, Slider), block.parameters[Slider].step)),
                   currentTime)

\* the slider thrown below its range, which the store clamps to the minimum
Rewind ==
    /\ Sliding
    /\ Evaluate(updateBlockParameter(waveformLines, "1", "b1", Slider, Units(0 - 1)),
                currentTime)

Mute ==
    /\ AtRest
    /\ currentTime = 0
    /\ Evaluate(toggleMute(waveformLines, "1"), currentTime)

\* the animation frame, lines 110-130: the clock moves on and the screen redraws
Frame ==
    /\ AtRest
    /\ currentTime < MaxFrames * FrameMs
    /\ Evaluate(waveformLines, currentTime + FrameMs)

Next == Redraw \/ StepUp \/ Rewind \/ Mute \/ Frame

Spec == Init /\ [][Next]_vars

----------------------------------------------------------------------------
(* Waveform cache: claims *)

Evaluated == call.op = "processWaveformLine"

EvaluatedNext == call'.op = "processWaveformLine"

RequestKey == CacheKey(call.line, call.time)

RequestKeyNext == CacheKey(call'.line, call'.time)

Range(seq) == {seq[k] : k \in 1..Len(seq)}

\* every key stored so far: the keys evaluated with a line shown
StoredKeys == MapKeys(waveformCache) \cup Range(evicted)

FirstKey == CacheKey(NewLine("1", <<NewBlock("b1", "sine")>>), 0)

\* C1: after any sequence of processWaveformLine calls the waveform cache holds
\* at most 100 entries.
C1_CacheNeverAbove100 == Len(waveformCache) <= 100

\* C2: once 101 pairwise distinct keys have been evaluated from the empty cache,
\* the cache holds exactly 100 entries and the first key inserted is absent.
C2_After101Keys ==
    Cardinality(StoredKeys) = 101 =>
       /\ Len(waveformCache) = 100
       /\ FirstKey \notin MapKeys(waveformCache)

KeySeq(map) == [k \in 1..Len(map) |-> map[k].key]

\* the keys present before and after a step keep their order
OrderKept ==
    \A old \in {MapKeys(waveformCache)} : \A new \in {MapKeys(waveformCache')} :
       SelectSeq(KeySeq(waveformCache), LAMBDA k : k \in new)
         = SelectSeq(KeySeq(waveformCache'), LAMBDA k : k \in old)

\* a step that evicts deletes one key, the first in insertion order
EvictsOldest ==
    Len(evicted') > Len(evicted) =>
       /\ evicted' = Append(evicted, waveformCache[1].key)
       /\ MapKeys(waveformCache) \ MapKeys(waveformCache')
            \subseteq {waveformCache[1].key}

\* C3: an eviction removes exactly one entry, the one inserted earliest among
\* those present; a hit, and a recomputation that overwrites a present key, do
\* not move the entry later in the eviction order.
C3_FifoOrder == [][EvictsOldest /\ OrderKept]_vars

\* the call and the one before it have the same line configuration, and times
\* in the same 0.05 s bucket less than 0.025 s apart
SameRequestTwice ==
    /\ Evaluated
    /\ call.before.op = "processWaveformLine"
    /\ call.before.line = call.line
    /\ call.before.time \div 50 = call.time \div 50
    /\ Abs(call.before.time - call.time) < 25

SameArrayTwice == call.result.obj = call.before.result.obj

\* C4 as stated: two consecutive calls with the identical line configuration at
\* times of one bucket less than 0.025 s apart return the identical array.
C4_SameRequestSameArray == SameRequestTwice => SameArrayTwice

\* C4: for a line that is not muted, when the array the first call returned was
\* computed less than 0.025 s from the second call's time (as it is when the
\* first call computed it), the second call returns that very array.
C4_FreshEntrySameArray ==
    (/\ SameRequestTwice
     /\ ~call.line.muted
     /\ Abs(call.before.result.time - call.time) < 25)
    => SameArrayTwice

\* a hit at another time than the one the array was computed at
C4_Witness ==
    /\ SameRequestTwice
    /\ ~call.line.muted
    /\ call.time # call.before.time
    /\ Abs(call.before.result.time - call.time) < 25
    /\ SameArrayTwice

\* the entries of the cache before the step that hold the array the step returns
HeldBefore == {k \in 1..Len(waveformCache) : waveformCache[k].points = call'.result.obj}

ReturnsNothingStale ==
    \A k \in HeldBefore :
       /\ waveformCache[k].key = RequestKeyNext
       /\ Abs(waveformCache[k].time - call'.time) < 25

StoresWhatItComputes ==
    HeldBefore = {} =>
       /\ MapHas(waveformCache', RequestKeyNext)
       /\ MapGet(waveformCache', RequestKeyNext).time = call'.time
       /\ MapGet(waveformCache', RequestKeyNext).points = call'.result.obj
       /\ call'.result.time = call'.time
       /\ call'.result.blocks = RequestKeyNext.blocks

IsFlat(points) ==
    /\ Len(points) = DISPLAY_SAMPLES
    /\ \A k \in 1..DISPLAY_SAMPLES :
          points[k] = [x |-> <<k - 1, DISPLAY_SAMPLES>>, y |-> 500000]

\* C7: for a muted line the call returns DISPLAY_SAMPLES points with
\* x = index / DISPLAY_SAMPLES and y = 0.5, does not look into the waveform
\* cache and leaves it as it was.
C7_MutedIsFlat ==
    [][(EvaluatedNext /\ call'.line.muted)
         => /\ ~call'.threw
            /\ IsFlat(PointsOf(call'.result))
            /\ ~call'.read
            /\ waveformCache' = waveformCache
            /\ evicted' = evicted]_vars

\* a muted line evaluated while the cache holds an array under its key
C7_Witness ==
    /\ Evaluated
    /\ call.line.muted
    /\ MapHas(waveformCache, RequestKey)
    /\ Len(call.line.blocks) > 0

----------------------------------------------------------------------------
(* The Aliasing Model alone: applyAliasing applied to a frequency and a     *)
(* sample rate, both whole numbers of Hz.                                   *)

\* frequencies up to MaxEighths eighths of the sample rate, and one more than
\* the sample rate times 2^k up to k = MaxOctave
MaxEighths == 40

MaxOctave == 13

AliasRates == {8000, SAMPLE_RATE, 48000}

AliasFrequencies(sampleRate) ==
    {(m * sampleRate) \div 8 : m \in (0 - 8)..MaxEighths}
      \cup {(sampleRate \div 2) + d : d \in {0 - 1, 0, 1}}
      \cup {sampleRate * Pow2(k) + 1 : k \in 0..MaxOctave}

\* the other variables of a stand-alone call
Apart ==
    /\ waveformCache = <<>>
    /\ fftCache = <<>>
    /\ waveformLines = <<>>
    /\ currentTime = 0
    /\ evicted = <<>>
    /\ call = NoCall

InitAlias ==
    /\ Apart
    /\ noiseGen = NewNoiseGenerator(0)
    /\ \E sampleRate \in AliasRates : \E frequency \in AliasFrequencies(sampleRate) :
          pure = [op |-> "input", frequency |-> frequency, sampleRate |-> sampleRate]

Alias ==
    /\ pure.op = "input"
    /\ pure' = [op |-> "applyAliasing", frequency |-> pure.frequency,
                sampleRate |-> pure.sampleRate,
                result |-> applyAliasing(pure.frequency, pure.sampleRate)]
    /\ UNCHANGED <<waveformCache, fftCache, noiseGen, waveformLines, currentTime,
                   evicted, call>>

NextAlias == Alias

SpecAlias == InitAlias /\ [][NextAlias]_vars

Aliased == pure.op = "applyAliasing"

\* C9: a frequency at or below sampleRate / 2 is returned unchanged, with a
\* power loss of exactly 1.0.
C9_PassBand ==
    (Aliased /\ 2 * pure.frequency <= pure.sampleRate)
    => pure.result = [frequency |-> pure.frequency, powerLoss |-> 1000000]

\* a frequency exactly at Nyquist went through
C9_Witness ==
    /\ Aliased
    /\ 2 * pure.frequency = pure.sampleRate
    /\ pure.result.frequency = pure.frequency

\* the triangle wave of period sampleRate: the distance from f to the nearest
\* multiple of sampleRate
TriangleFold(f, sampleRate) ==
    LET below == f - (f \div sampleRate) * sampleRate
        above == ((f \div sampleRate) + 1) * sampleRate - f
    IN IF below <= above THEN below ELSE above

\* C10: a frequency above sampleRate / 2 comes back as its triangle-wave fold,
\* which lies in [0, sampleRate / 2], with a power loss in [0.0001, 1.0].
C10_FoldedBand ==
    (Aliased /\ 2 * pure.frequency > pure.sampleRate)
    => /\ pure.result.frequency >= 0
       /\ 2 * pure.result.frequency <= pure.sampleRate
       /\ pure.result.frequency = TriangleFold(pure.frequency, pure.sampleRate)
       /\ pure.result.powerLoss >= 100
       /\ pure.result.powerLoss <= 1000000

\* a frequency that is reflected, with a loss between the clamps
C10_Witness ==
    /\ Aliased
    /\ 2 * (pure.frequency % pure.sampleRate) > pure.sampleRate
    /\ pure.result.frequency = pure.sampleRate - (pure.frequency % pure.sampleRate)
    /\ pure.result.powerLoss > 100
    /\ pure.result.powerLoss < 1000000

----------------------------------------------------------------------------
(* The Block Processor alone: processBlock applied to one block, one input  *)
(* buffer, one time and one state of the noise generator.                   *)

\* the seeds of the noise generator
MaxSeed == 2

\* a block type outside BLOCK_TEMPLATES
UnknownType == "mixer"

NoParameters == [name \in {} |-> P("", Milli(0), Milli(0), Milli(0), Milli(0), "")]

\* a lowpass block with its cutoff moved to SAMPLE_RATE / 4 and the Q of the
\* template, 1
QuarterRateLowpass ==
    updateBlockParameter(<<NewLine("1", <<NewBlock("b1", "lowpass")>>)>>, "1", "b1",
                         "cutoff", Units(SAMPLE_RATE \div 4))[1].blocks[1]

\* the length of the impulse buffer
ImpulseLength == 30

\* first sample 1, all others 0
UnitImpulse == [n \in 1..ImpulseLength |-> IF n = 1 THEN 1000000 ELSE 0]

BlockInputs ==
    {[id |-> "b1", type |-> type, parameters |-> parameters, enabled |-> enabled] :
       type \in BlockTypes, parameters \in {NoParameters}, enabled \in BOOLEAN}
      \cup {[NewBlock("b1", type) EXCEPT !.enabled = enabled] :
              type \in BlockTypes, enabled \in BOOLEAN}
      \cup {[id |-> "b1", type |-> UnknownType, parameters |-> NoParameters,
             enabled |-> enabled] : enabled \in BOOLEAN}
      \cup {QuarterRateLowpass}

BufferInputs ==
    {<<>>, <<0, 0>>, <<250000, NaN, 0 - 500000>>, <<100000, 200000, 300000, 400000>>,
     UnitImpulse}

InitBlock ==
    /\ Apart
    /\ \E seed \in 0..MaxSeed : noiseGen = NewNoiseGenerator(seed)
    /\ \E block \in BlockInputs : \E input \in BufferInputs : \E time \in {0, FrameMs} :
          pure = [op |-> "input", block |-> block, input |-> input, time |-> time]

Process ==
    /\ pure.op = "input"
    /\ \E r \in {processBlock(pure.block, pure.input, pure.time, noiseGen)} :
          /\ pure' = [op |-> "processBlock", block |-> pure.block, input |-> pure.input,
                      time |-> pure.time, gen |-> noiseGen, threw |-> r.threw,
                      output |-> r.output, same |-> r.same, read |-> r.read]
          /\ noiseGen' = r.gen
    /\ UNCHANGED <<waveformCache, fftCache, waveformLines, currentTime, evicted, call>>

NextBlock == Process

SpecBlock == InitBlock /\ [][NextBlock]_vars

Processed == pure.op = "processBlock"

\* C8: a disabled block of any type returns the input buffer itself, leaves
\* the noise generator as it was and reads no parameter.
C8_DisabledPassesThrough ==
    (Processed /\ ~pure.block.enabled)
    => /\ ~pure.threw
       /\ pure.same
       /\ pure.output = pure.input
       /\ noiseGen = pure.gen
       /\ pure.read = {}

\* a disabled noise block was given a buffer with samples in it
C8_Witness ==
    /\ Processed
    /\ ~pure.block.enabled
    /\ pure.block.type = "noise"
    /\ pure.input # <<>>
    /\ pure.same

----------------------------------------------------------------------------
(* The Spectral Estimator's cache: generateWaterfallData, lines 481-634.    *)
(* An entry's frequencies and magnitudes are functions of the centre        *)
(* frequency, the bandwidth, the blocks and the points they were computed   *)
(* from; the entry records those and the time of the computation.           *)

\* fftCache.size > 50, line 619
FftCacheLimit == 50

\* waveforms.length > 100, line 494
MaxWaveforms == 100

\* w.points.length <= 10000, line 509
MaxPointsLength == 10000

\* The points of a waveform handed to the estimator, which reads their number
\* and their y: an array of `length` points, all at the level y (in millionths),
\* or no array at all.
FlatArray(length, y) == [length |-> length, y |-> y]

NoPoints == FlatArray(0 - 1, 0)

\* Array.isArray(w.points), line 507
IsArray(points) == points.length >= 0

\* Math.round(p.y * 100) of the first ten points, line 516; y in millionths
PointsHash(points) ==
    [k \in 1..(IF points.length < 10 THEN points.length ELSE 10) |->
       IF points.y = NaN THEN NaN ELSE (points.y + 5000) \div 10000]

\* line 517: index, pointsHash and Math.floor(time * 10), time in ms
FftKey(index, points, time) ==
    [index |-> index, pointsHash |-> PointsHash(points), bucket |-> time \div 100]

\* the filter on w.visible alone
VisibleWaveform(w) == w.visible

\* the filter of lines 505-511
ValidWaveform(w) ==
    /\ IsArray(w.points)
    /\ w.points.length <= MaxPointsLength
    /\ w.visible
    /\ ~w.muted

\* lines 524-616: the spectrum computed for one waveform, with the key it is
\* stored under
Spectrum(key, waveform, time, centerFreq, bandwidth) ==
    [key |-> key, centerFreq |-> centerFreq, bandwidth |-> bandwidth, blocks |-> waveform.blocks,
     points |-> waveform.points, time |-> time]

\* lines 618-625
StoreSpectrum(cache, entry) ==
    IF Len(cache) > FftCacheLimit
    THEN MapSet(MapDelete(cache, cache[1].key), entry)
    ELSE MapSet(cache, entry)

\* the map callback of lines 514-628, over the filtered waveforms from the k-th
RECURSIVE WaterfallMap(_, _, _, _, _, _, _)
WaterfallMap(valid, k, time, centerFreq, bandwidth, cache, results) ==
    IF k > Len(valid) THEN [results |-> results, cache |-> cache]
    ELSE LET cacheKey == FftKey(k - 1, valid[k].points, time)
         IN IF MapHas(cache, cacheKey)
            THEN WaterfallMap(valid, k + 1, time, centerFreq, bandwidth, cache,
                     Append(results,
                            [MapGet(cache, cacheKey) EXCEPT !.time = time]))
            ELSE LET result == Spectrum(cacheKey, valid[k], time, centerFreq, bandwidth)
                 IN WaterfallMap(valid, k + 1, time, centerFreq, bandwidth,
                                 StoreSpectrum(cache, result), Append(results, result))

\* +Infinity; NaN and Infinity are the numbers that are not finite
Infinity == Pow2(30) + (Pow2(30) - 1)

IsFinite(x) == x # NaN /\ x # Infinity

\* x <= 0 is false of NaN
NotPositive(x) == x # NaN /\ x <= 0

\* the validation without the isFinite tests
InvalidWindowBySign(centerFreq, bandwidth) ==
    NotPositive(centerFreq) \/ NotPositive(bandwidth)

\* lines 498-503
InvalidWindow(centerFreq, bandwidth) ==
    \/ NotPositive(centerFreq)
    \/ NotPositive(bandwidth)
    \/ ~IsFinite(centerFreq)
    \/ ~IsFinite(bandwidth)

generateWaterfallData(waveforms, time, centerFreq, bandwidth, cache) ==
    IF Len(waveforms) = 0 \/ Len(waveforms) > MaxWaveforms
    THEN [results |-> <<>>, cache |-> cache]
    ELSE IF InvalidWindow(centerFreq, bandwidth)
    THEN [results |-> <<>>, cache |-> cache]
    ELSE WaterfallMap(SelectSeq(waveforms, ValidWaveform), 1, time, centerFreq,
                      bandwidth, cache, <<>>)

\* numBins, line 527
NumBins == FFT_SIZE \div 2

\* Frequencies of the window are whole numbers of 1 / FFT_SIZE Hz when
\* centerFreq and bandwidth are whole numbers of Hz.
\* minFreq, line 525
MinFreq(centerFreq, bandwidth) ==
    IF 2 * centerFreq > bandwidth THEN (2 * centerFreq - bandwidth) * NumBins ELSE 0

\* maxFreq, line 526
MaxFreq(centerFreq, bandwidth) == (2 * centerFreq + bandwidth) * NumBins

\* freqStep = bandwidth / numBins, line 528
FreqStep(bandwidth) == 2 * bandwidth

\* freq = minFreq + i * freqStep, line 535
BinFrequency(centerFreq, bandwidth, i) ==
    MinFreq(centerFreq, bandwidth) + i * FreqStep(bandwidth)

\* the frequencies of a spectrum, in 1 / FFT_SIZE Hz
Frequencies(spectrum) ==
    [k \in 1..NumBins |-> BinFrequency(spectrum.centerFreq, spectrum.bandwidth, k - 1)]

\* block.parameters.<name>?.value || fallback, in thousandths: a missing
\* parameter and a value of 0 both give the fallback
OrDefault(block, name, fallback) ==
    IF name \notin DOMAIN block.parameters THEN fallback
    ELSE IF MilliOf(block.parameters[name].value) = 0 THEN fallback
    ELSE MilliOf(block.parameters[name].value)

\* blockFreq, lines 546-582, in thousandths of a Hz
BlockFreq(block) ==
    IF block.type \in {"sine", "square", "sawtooth", "triangle", "pulse"}
    THEN OrDefault(block, "frequency", 0)
    ELSE IF block.type = "chirp"
    THEN (OrDefault(block, "startFreq", 100000) + OrDefault(block, "endFreq", 2000000)) \div 2
    ELSE IF block.type \in {"bandpass", "notch"} THEN OrDefault(block, "centerFreq", 0)
    ELSE IF block.type \in {"lowpass", "highpass"} THEN OrDefault(block, "cutoff", 0)
    ELSE 0

\* baseAmp * gain * 5, in millionths
ScaledAmp(block, ampFallback, gainFallback) ==
    5 * Level(OrDefault(block, "amplitude", ampFallback),
              GainOf(OrDefault(block, "gain", gainFallback)), 1000000)

\* blockAmp, lines 546-582, in millionths
BlockAmp(block) ==
    IF block.type \in {"sine", "square", "sawtooth", "triangle"}
    THEN ScaledAmp(block, 500, 0)
    ELSE IF block.type = "pulse" THEN ScaledAmp(block, 800, 0 - 6000)
    ELSE IF block.type = "chirp" THEN ScaledAmp(block, 500, 0 - 4000)
    ELSE IF block.type \in {"bandpass", "notch"} THEN 1500000
    ELSE IF block.type \in {"lowpass", "highpass"} THEN 1000000
    ELSE IF block.type = "noise" THEN 50 * OrDefault(block, "intensity", 200)
    ELSE 0

\* blockFreq in 1 / FFT_SIZE Hz, rounded down
BlockFreqInBins(block) == MulDiv(BlockFreq(block), FFT_SIZE, 1000)

\* line 585: the block's frequency is within half a step of the bin's
InBin(block, centerFreq, bandwidth, i) ==
    /\ block.enabled
    /\ BlockFreq(block) > 0
    /\ BlockFreqInBins(block) >= BinFrequency(centerFreq, bandwidth, i) - bandwidth
    /\ BlockFreqInBins(block) < BinFrequency(centerFreq, bandwidth, i) + bandwidth

\* lines 587-589: blockAmp * Math.exp(-freqDiff / (freqStep * 0.5)) * 10 in
\* millionths; e^-x = 2^-(x log2(e)) and 1024 log2(e) = 1477
Peak(block, centerFreq, bandwidth, i) ==
    LET freqDiff == Abs(BinFrequency(centerFreq, bandwidth, i) - BlockFreqInBins(block))
    IN 10 * MulDiv(BlockAmp(block), Exp2Neg(MulDiv(freqDiff, 1477, bandwidth)), 1000000)

\* lines 543-596: what the enabled blocks from the k-th add to bin i
RECURSIVE BlocksMagnitude(_, _, _, _, _)
BlocksMagnitude(blocks, k, centerFreq, bandwidth, i) ==
    IF k > Len(blocks) THEN 0
    ELSE (IF InBin(blocks[k], centerFreq, bandwidth, i)
          THEN Peak(blocks[k], centerFreq, bandwidth, i) ELSE 0)
         + (IF blocks[k].enabled /\ blocks[k].type = "noise"
            THEN BlockAmp(blocks[k]) \div 10 ELSE 0)
         + BlocksMagnitude(blocks, k + 1, centerFreq, bandwidth, i)

\* a block added to the magnitude of bin i (each addition is positive)
Contributes(blocks, centerFreq, bandwidth, i) ==
    \E k \in 1..Len(blocks) :
       \/ InBin(blocks[k], centerFreq, bandwidth, i)
       \/ blocks[k].enabled /\ blocks[k].type = "noise"

\* lines 599-607: the baseline from the time-domain points, in millionths
Baseline(points, i) ==
    IF points.length > 0 /\ (i * points.length) \div NumBins < points.length
    THEN IF points.y = NaN THEN NaN ELSE (2 * Abs(points.y - 500000)) \div 100
    ELSE 0

\* the magnitudes of a spectrum, in millionths
Magnitudes(spectrum) ==
    [k \in 1..NumBins |->
       IF Contributes(spectrum.blocks, spectrum.centerFreq, spectrum.bandwidth, k - 1)
       THEN BlocksMagnitude(spectrum.blocks, 1, spectrum.centerFreq, spectrum.bandwidth, k - 1)
       ELSE Baseline(spectrum.points, k - 1)]

\* the waterfall view asks for a new estimate every TickMs, up to MaxTicks times
TickMs == 100

MaxTicks == 10

\* the points of a waveform on display, MaxPoints of them
MaxPoints == 12

FlatPoints == FlatArray(MaxPoints, 500000)

Waveform(visible, muted) ==
    [points |-> FlatPoints, visible |-> visible, muted |-> muted,
     blocks |-> <<NewBlock("b1", "sine")>>]

\* one hidden and one muted waveform, then count waveforms on display
Waveforms(count) ==
    IF count = 0 THEN <<>>
    ELSE <<Waveform(FALSE, FALSE), Waveform(TRUE, TRUE)>>
           \o [k \in 1..(count - 2) |-> Waveform(TRUE, FALSE)]

\* the store's five lines, more lines than the cache holds, and the lengths
\* the estimator rejects
WaveformCounts == {0, 7, FftCacheLimit + 3, MaxWaveforms + 1}

CenterFreqs == {0, 1000000}

Estimate(count, centerFreq) ==
    \E r \in {generateWaterfallData(Waveforms(count), currentTime, centerFreq, 2000000,
                                    fftCache)} :
       /\ fftCache' = r.cache
       /\ call' = [op |-> "generateWaterfallData", count |-> count, time |-> currentTime,
                   centerFreq |-> centerFreq, results |-> r.results]
       /\ UNCHANGED <<waveformCache, noiseGen, waveformLines, currentTime, evicted, pure>>

Estimated ==
    /\ call.op = "generateWaterfallData"
    /\ call.time = currentTime
    /\ call.results # <<>>

Tick ==
    /\ Estimated
    /\ currentTime < MaxTicks * TickMs
    /\ currentTime' = currentTime + TickMs
    /\ UNCHANGED <<waveformCache, fftCache, noiseGen, waveformLines, evicted, call, pure>>

InitWaterfall ==
    /\ Apart
    /\ noiseGen = NewNoiseGenerator(0)
    /\ pure = <<>>

NextWaterfall ==
    \/ \E count \in WaveformCounts : \E centerFreq \in CenterFreqs :
          Estimate(count, centerFreq)
    \/ Tick

SpecWaterfall == InitWaterfall /\ [][NextWaterfall]_vars

\* C6: the spectral cache never holds more than 50 entries, however many
\* lines a call is given.
C6_FftCacheNeverAbove50 == Len(fftCache) <= 50

----------------------------------------------------------------------------
(* The Aliasing Model over one octave band above Nyquist: applyAliasing     *)
(* applied to two frequencies of the band.                                  *)

\* the bands (Nyquist * 2^k, Nyquist * 2^(k+1)] for k up to MaxBand
MaxBand == 13

\* the sixteenths of the sample rate times 2^k in band k: Nyquist * 2^k * j / 8
BandFrequency(sampleRate, k, j) ==
    IF k < 4 THEN (sampleRate * Pow2(k) * j) \div 16 ELSE sampleRate * Pow2(k - 4) * j

InitBands ==
    /\ Apart
    /\ noiseGen = NewNoiseGenerator(0)
    /\ \E sampleRate \in AliasRates : \E k \in 0..MaxBand :
          \E j1 \in 9..16 : \E j2 \in (j1 + 1)..16 :
             pure = [op |-> "input", sampleRate |-> sampleRate, band |-> k,
                     f1 |-> BandFrequency(sampleRate, k, j1),
                     f2 |-> BandFrequency(sampleRate, k, j2)]

AliasBoth ==
    /\ pure.op = "input"
    /\ pure' = [op |-> "applyAliasing", sampleRate |-> pure.sampleRate,
                band |-> pure.band, f1 |-> pure.f1, f2 |-> pure.f2,
                alias1 |-> applyAliasing(pure.f1, pure.sampleRate),
                alias2 |-> applyAliasing(pure.f2, pure.sampleRate)]
    /\ UNCHANGED <<waveformCache, fftCache, noiseGen, waveformLines, currentTime,
                   evicted, call>>

NextBands == AliasBoth

SpecBands == InitBands /\ [][NextBands]_vars

\* f1 < f2, both above Nyquist and in one octave band
SameBand ==
    /\ pure.op = "applyAliasing"
    /\ pure.f1 < pure.f2
    /\ pure.sampleRate * Pow2(pure.band) < 2 * pure.f1
    /\ 2 * pure.f2 <= pure.sampleRate * Pow2(pure.band + 1)

\* C11: of two frequencies above Nyquist in one octave band, the higher has the
\* strictly smaller power loss, in every band up to the highest frequency a
\* block can hold.
C11_StrictlyDecreasing == SameBand => pure.alias2.powerLoss < pure.alias1.powerLoss

----------------------------------------------------------------------------
(* The Spectral Estimator called with lines and windows of every kind, at   *)
(* time 0 and one bucket later.                                             *)

\* a line with a sine block, the same points with another block list, and a
\* line of another level with a noise block
LineA == Waveform(TRUE, FALSE)

LineA2 ==
    [LineA EXCEPT !.blocks = <<[id |-> "b1", type |-> "pulse", parameters |-> NoParameters,
                                enabled |-> TRUE]>>]

LineB == [LineA EXCEPT !.points = FlatArray(MaxPoints, 700000),
                       !.blocks = <<NewBlock("b1", "noise")>>]

\* lines the estimator leaves out
Unlisted ==
    [hidden |-> Waveform(FALSE, FALSE),
     muted |-> Waveform(TRUE, TRUE),
     missing |-> [LineA EXCEPT !.points = NoPoints],
     oversize |-> [LineA EXCEPT !.points = FlatArray(MaxPointsLength + 1, 500000)]]

LineLists ==
    {<<>>, <<LineA>>, <<LineA2>>,
     <<Unlisted.hidden, LineA, Unlisted.muted, Unlisted.missing, LineB, Unlisted.oversize>>,
     [k \in 1..(MaxWaveforms + 1) |-> LineA]}

\* <<centerFreq, bandwidth>> in Hz: two windows the estimator accepts, the
\* second with centerFreq < bandwidth / 2, and windows it rejects
Windows ==
    {<<1000, 2000>>, <<100, 2000>>,
     <<0, 2000>>, <<0 - 5, 2000>>, <<1000, 0>>, <<1000, 0 - 5>>,
     <<NaN, 2000>>, <<1000, NaN>>, <<Infinity, 2000>>, <<1000, Infinity>>}

Request(lines, window) ==
    \E r \in {generateWaterfallData(lines, currentTime, window[1], window[2], fftCache)} :
       /\ fftCache' = r.cache
       /\ call' = [op |-> "generateWaterfallData", waveforms |-> lines,
                   time |-> currentTime, centerFreq |-> window[1],
                   bandwidth |-> window[2], results |-> r.results]
       /\ UNCHANGED <<waveformCache, noiseGen, waveformLines, currentTime, evicted, pure>>

NextBucket ==
    /\ currentTime = 0
    /\ currentTime' = TickMs
    /\ UNCHANGED <<waveformCache, fftCache, noiseGen, waveformLines, evicted, call, pure>>

NextEstimate ==
    \/ \E lines \in LineLists : \E window \in Windows : Request(lines, window)
    \/ NextBucket

SpecEstimate == InitWaterfall /\ [][NextEstimate]_vars

Requested == call.op = "generateWaterfallData"

\* the window of the request is one the contract rejects
BadWindow(centerFreq, bandwidth) ==
    \/ centerFreq \in {NaN, Infinity}
    \/ bandwidth \in {NaN, Infinity}
    \/ centerFreq <= 0
    \/ bandwidth <= 0

BadList(lines) == Len(lines) = 0 \/ Len(lines) > 100

\* C12: with centerFreq <= 0, bandwidth <= 0, either of them not finite, an
\* empty line list or more than 100 lines, the estimate is the empty sequence
\* and the spectral cache is left as it was.
C12_InvalidRequestIsEmpty ==
    [][(call'.op = "generateWaterfallData"
        /\ (BadWindow(call'.centerFreq, call'.bandwidth) \/ BadList(call'.waveforms)))
       => (call'.results = <<>> /\ fftCache' = fftCache)]_vars

\* a request with lines to show and a centre frequency that is not a number,
\* made when the cache holds spectra
C12_Witness ==
    /\ Requested
    /\ call.centerFreq = NaN
    /\ call.waveforms = <<LineA>>
    /\ fftCache # <<>>
    /\ call.results = <<>>

\* the lines of the contract: visible, unmuted, with at most 10000 points
Listed(w) == w.visible /\ ~w.muted /\ w.points.length \in 0..10000

GoodRequest ==
    /\ Requested
    /\ ~BadWindow(call.centerFreq, call.bandwidth)
    /\ ~BadList(call.waveforms)

EquallySpaced(frequencies) ==
    \A k \in 2..(Len(frequencies) - 1) :
       frequencies[k + 1] - frequencies[k] = frequencies[k] - frequencies[k - 1]

InsideWindow(frequencies, centerFreq, bandwidth) ==
    \A k \in 1..Len(frequencies) :
       /\ frequencies[k] >= (IF 2 * centerFreq > bandwidth
                             THEN (2 * centerFreq - bandwidth) * (FFT_SIZE \div 2) ELSE 0)
       /\ frequencies[k] <= (2 * centerFreq + bandwidth) * (FFT_SIZE \div 2)

\* C14: a computed spectrum has FFT_SIZE / 2 frequencies and as many
\* magnitudes; the frequencies are equally spaced and lie within
\* [max(0, centerFreq - bandwidth / 2), centerFreq + bandwidth / 2].
C14_BinsInsideWindow ==
    Requested =>
       \A k \in 1..Len(call.results) :
          \A f \in {Frequencies(call.results[k])} :
             /\ Len(f) = FFT_SIZE \div 2
             /\ Len(Magnitudes(call.results[k])) = FFT_SIZE \div 2
             /\ EquallySpaced(f)
             /\ InsideWindow(f, call.results[k].centerFreq, call.results[k].bandwidth)

\* the spectrum of one line in the window of the request, whatever is cached
Expected(k) ==
    [centerFreq |-> call.centerFreq, bandwidth |-> call.bandwidth,
     blocks |-> SelectSeq(call.waveforms, Listed)[k].blocks,
     points |-> SelectSeq(call.waveforms, Listed)[k].points]

\* C15: every spectrum a valid request returns has the frequencies of the
\* request's window and the magnitudes of the line's blocks in that window,
\* whatever requests came before.
C15_SpectrumOfThisRequest ==
    GoodRequest =>
       \A k \in 1..Len(call.results) :
          /\ Frequencies(call.results[k]) = Frequencies(Expected(k))
          /\ Magnitudes(call.results[k]) = Magnitudes(Expected(k))

----------------------------------------------------------------------------
(* Audio Synthesizer: generateAudioBuffer, dsp-processing.ts 637-770 *)

\* the fallbacks of `block.parameters.<name>?.value || fallback`, lines 660-736,
\* in thousandths
SynthDefaults ==
    [t \in GeneratorTypes \cup {"noise"} |->
       CASE t = "sine" -> [frequency |-> 440000, amplitude |-> 500, gain |-> 0, phase |-> 0]
         [] t = "square" -> [frequency |-> 220000, dutyCycle |-> 500, gain |-> 0 - 10000]
         [] t = "sawtooth" ->
              [frequency |-> 330000, amplitude |-> 400, phase |-> 0, gain |-> 0 - 2000]
         [] t = "triangle" ->
              [frequency |-> 550000, amplitude |-> 600, phase |-> 0, gain |-> 0 - 3000]
         [] t = "pulse" ->
              [frequency |-> 1000000, width |-> 100, amplitude |-> 800, gain |-> 0 - 6000]
         [] t = "chirp" ->
              [startFreq |-> 100000, endFreq |-> 2000000, duration |-> 1000,
               amplitude |-> 500, gain |-> 0 - 4000]
         [] t = "noise" -> [intensity |-> 200, type |-> 0]]

\* the values the synthesizer computes with: the stored value, or the fallback
\* when the parameter is missing or its value is 0
WithDefaults(block) ==
    [block EXCEPT !.parameters =
       [name \in DOMAIN SynthDefaults[block.type] |->
          [value |-> IF name \in DOMAIN block.parameters
                        /\ MilliOf(block.parameters[name].value) # 0
                     THEN block.parameters[name].value
                     ELSE Milli(SynthDefaults[block.type][name])]]]

\* the sine formula with applyAliasing, lines 667-668
AliasedSineSample(block, i) ==
    LET al == BlockAliasing(Val(block, "frequency"))
        ph == PhaseAt(al.frequency, SampleTime(0, i))
              + MilliOf(Val(block, "phase")) * 1225
        level == Level(MilliOf(Val(block, "amplitude")),
                       GainOf(MilliOf(Val(block, "gain"))), al.powerLoss)
    IN MulDiv(level, Sin(ph), 16384)

\* the square formula with applyAliasing, lines 678-680
AliasedSquareSample(block, i) ==
    LET al == BlockAliasing(Val(block, "frequency"))
        ph == PhaseAt(al.frequency, SampleTime(0, i))
        gain == MulDiv(GainOf(MilliOf(Val(block, "gain"))), al.powerLoss, 1000000)
    IN IF ph < MilliOf(Val(block, "dutyCycle")) * 441000 THEN gain ELSE -gain

\* the formula of a generator block at t = i / SAMPLE_RATE on the values the
\* block holds: <<contribution in millionths, noise generator after>>
BlockFormula(block, i, gen) ==
    IF block.type = "sine" THEN <<AliasedSineSample(block, i), gen>>
    ELSE IF block.type = "square" THEN <<AliasedSquareSample(block, i), gen>>
    ELSE IF block.type = "noise" THEN NoiseStep(block, gen, 0)
    ELSE <<GeneratorSample(block, 0, i), gen>>

\* lines 655-741: what an enabled block adds to waveformSample
SynthContribution(block, i, gen) ==
    IF block.type \in GeneratorTypes \cup {"noise"}
    THEN BlockFormula(WithDefaults(block), i, gen)
    ELSE <<0, gen>>

\* sample indices 0 .. MaxSample
MaxSample == 7

\* the parameters of a template that may be set to 0: min <= 0 <= max
MayBeZero(type) ==
    {name \in DOMAIN BLOCK_TEMPLATES[type] :
       /\ MilliOf(BLOCK_TEMPLATES[type][name].min) <= 0
       /\ MilliOf(BLOCK_TEMPLATES[type][name].max) >= 0}

\* every generator block as added, and with one of those parameters moved to 0
SynthBlocks ==
    {NewBlock("b1", type) : type \in GeneratorTypes \cup {"noise"}}
      \cup UNION {{updateBlockParameter(<<NewLine("1", <<NewBlock("b1", type)>>)>>,
                                        "1", "b1", name, Milli(0))[1].blocks[1] :
                     name \in MayBeZero(type)} : type \in GeneratorTypes \cup {"noise"}}

InitSynthBlock ==
    /\ Apart
    /\ \E seed \in 0..MaxSeed : noiseGen = NewNoiseGenerator(seed)
    /\ \E block \in SynthBlocks : \E i \in 0..MaxSample :
          pure = [op |-> "input", block |-> block, i |-> i]

Contribute ==
    /\ pure.op = "input"
    /\ \E r \in {SynthContribution(pure.block, pure.i, noiseGen)} :
          /\ pure' = [op |-> "contribution", block |-> pure.block, i |-> pure.i,
                      gen |-> noiseGen, value |-> r[1]]
          /\ noiseGen' = r[2]
    /\ UNCHANGED <<waveformCache, fftCache, waveformLines, currentTime, evicted, call>>

NextSynthBlock == Contribute

SpecSynthBlock == InitSynthBlock /\ [][NextSynthBlock]_vars

\* the block holds the value 0 for the parameter
HoldsZero(block, name) ==
    name \in DOMAIN block.parameters /\ MilliOf(block.parameters[name].value) = 0

\* C17: what an enabled generator block adds to a sample is the formula of its
\* type on the values the block holds; an amplitude or an intensity of 0 adds 0.
C17_StoredValuesUsed ==
    pure.op = "contribution" =>
       /\ pure.value = BlockFormula(pure.block, pure.i, pure.gen)[1]
       /\ (HoldsZero(pure.block, "amplitude") \/ HoldsZero(pure.block, "intensity"))
             => pure.value = 0

(* generateAudioBuffer (lines 637-770).  A duration is a whole number of    *)
(* 1/DurationUnit s, NaN or Infinity; the buffer is the sequence of its      *)
(* samples in millionths.  new Float32Array(n) takes NaN as length 0 and     *)
(* throws a RangeError for a negative or infinite n.                         *)
DurationUnit == 10000

\* Math.floor(SAMPLE_RATE * duration), line 638
SampleCount(duration) ==
    IF IsFinite(duration) THEN (SAMPLE_RATE * duration) \div DurationUnit ELSE duration

\* the filter of line 641 without its test of muted
ActiveIfVisible(w) == w.visible

\* line 641
ActiveWaveform(w) == w.visible /\ ~w.muted

\* the sum of samples 1..k of a sequence
RECURSIVE SumSamples(_, _)
SumSamples(samples, k) ==
    IF k = 0 THEN 0 ELSE SAdd(SumSamples(samples, k - 1), samples[k])

\* lines 654-745: the enabled blocks of a line, in order, one draw of the
\* shared noise generator per noise block
BlocksSample(blocks, i, gen) ==
    CHOOSE r \in {<<SumSamples(c[1], Len(c[1])), c[2]>> :
                    c \in {Scan(LAMBDA g, block : IF block.enabled
                                                  THEN SynthContribution(block, i, g)
                                                  ELSE <<0, g>>,
                                blocks, 1, Len(blocks), gen)}} : TRUE

\* waveform.points.length of a line without points array throws a TypeError
FallbackThrows(waveform) == ~IsArray(waveform.points)

\* lines 749-761: the points are all at one level, so both branches of the
\* interpolation give (y - 0.5) * 2; an empty array adds nothing
FallbackSample(waveform) ==
    IF waveform.points.length = 0 THEN 0 ELSE 2 * (waveform.points.y - 500000)

\* Math.tanh(x) in millionths for x >= 0 in millionths: below 0.25 by
\* x - x^3 / 3 + 2 x^5 / 15, within 0.000003; from there on by (1 - q) / (1 + q)
\* with q = e^(-2 x) = 2^(-2 x log2(e)), and 2 log2(e) * 2^LogBits = 2954.64
TanhSeries(x) ==
    CHOOSE r \in {x - (x3 \div 3) + (2 * MulDiv(MulDiv(x3, x, 1000000), x, 1000000)) \div 15 :
                    x3 \in {MulDiv(MulDiv(x, x, 1000000), x, 1000000)}} : TRUE

Tanh(x) ==
    IF x < 250000 THEN TanhSeries(x)
    ELSE CHOOSE r \in {MulDiv(1000000 - q, 1000000, 1000000 + q) :
                         q \in {Exp2Neg(MulDiv(x, 295464, 100000000))}} : TRUE

\* the least x, in millionths, whose Math.tanh(x) the Float32Array of line 639
\* stores as 1: tanh(x) >= 1 - 2^-25, x >= ln(2^26 - 1) / 2 = 9.010913...
Float32One == 9010914

\* buffer[i] = Math.tanh(sample * 0.8), line 766, as the Float32Array keeps it:
\* 1000000 stands for the float 1, which is stored from Float32One on
SoftLimit(sample) ==
    IF sample = NaN THEN NaN
    ELSE CHOOSE r \in {Sign(sample) * (IF x >= Float32One THEN 1000000
                                       ELSE IF x < 6000000 THEN Tanh(x) ELSE 999999) :
                         x \in {MulDiv(Abs(sample), 4, 5)}} : TRUE

\* lines 649-763: the sum over the active lines at sample i
LinesSample(active, i, gen) ==
    CHOOSE r \in {<<SumSamples(c[1], Len(c[1])), c[2]>> :
                    c \in {Scan(LAMBDA g, waveform :
                                   IF Len(waveform.blocks) > 0
                                   THEN BlocksSample(waveform.blocks, i, g)
                                   ELSE <<FallbackSample(waveform), g>>,
                                active, 1, Len(active), gen)}} : TRUE

\* lines 646-766: sample i of the buffer
BufferSample(active, i, gen) ==
    CHOOSE r \in {<<SoftLimit(IF s[1] = NaN THEN NaN
                              ELSE MulDiv(s[1], 1, IF Len(active) > 1 THEN Len(active)
                                                   ELSE 1)),
                    s[2]>> :
                    s \in {LinesSample(active, i, gen)}} : TRUE

\* lines 645-767: samples 0 .. length - 1 of the buffer
BufferSamples(active, length, gen) ==
    Scan(LAMBDA g, i : BufferSample(active, i, g),
         [k \in 1..length |-> k - 1], 1, length, gen)

generateAudioBuffer(waveforms, duration, gen) ==
    LET sampleCount == SampleCount(duration)
        length == IF sampleCount = NaN THEN 0 ELSE sampleCount
        activeWaveforms == SelectSeq(waveforms, ActiveWaveform)
    IN IF length < 0 \/ length = Infinity
       THEN [threw |-> TRUE, buffer |-> <<>>, gen |-> gen]
       ELSE IF Len(activeWaveforms) = 0
       THEN [threw |-> FALSE, buffer |-> [i \in 1..length |-> 0], gen |-> gen]
       ELSE IF length > 0
               /\ \E k \in 1..Len(activeWaveforms) :
                     Len(activeWaveforms[k].blocks) = 0 /\ FallbackThrows(activeWaveforms[k])
       THEN [threw |-> TRUE, buffer |-> <<>>, gen |-> gen]
       ELSE CHOOSE r \in {[threw |-> FALSE, buffer |-> b[1], gen |-> b[2]] :
                            b \in {BufferSamples(activeWaveforms, length, gen)}} : TRUE

----------------------------------------------------------------------------
(* The synthesizer on its own: exportWaveformData (part_004 lines 370-372)  *)
(* hands it the store's lines with their display points and the duration of *)
(* the settings.                                                            *)

\* durations 0 .. MaxDuration, in 1/DurationUnit s
MaxDuration == 3

\* the noise generator is not asked for more draws than this
MaxDraws == 5

\* a line without blocks: its points are its sound
PointsLine(points) == [points |-> points, visible |-> TRUE, muted |-> FALSE, blocks |-> <<>>]

\* a sine block at amplitude 100 and +20 dB, set through the store: both inside
\* the ranges of the template (amplitude 0..10000, gain -60..20)
LoudLine ==
    [LineA EXCEPT !.blocks =
       updateBlockParameter(
          updateBlockParameter(<<NewLine("1", <<NewBlock("b1", "sine")>>)>>,
                               "1", "b1", "amplitude", Units(100)),
          "1", "b1", "gain", Units(20))[1].blocks]

\* no line; lines all hidden or muted; one sine line; a sine and a noise line
\* between a hidden and a muted one; a pulse block without parameters; lines
\* without blocks, with points off the centre, at the centre and with none; the
\* loud line
SynthLists ==
    {<<>>,
     <<Unlisted.hidden, Unlisted.muted, [PointsLine(FlatArray(MaxPoints, 700000))
                                           EXCEPT !.muted = TRUE]>>,
     <<LineA>>,
     <<Unlisted.hidden, LineA, Unlisted.muted, LineB>>,
     <<LineA2>>,
     <<PointsLine(FlatArray(MaxPoints, 700000))>>,
     <<PointsLine(FlatPoints), PointsLine(FlatArray(0, 0))>>,
     <<LoudLine>>}

Durations == (0..MaxDuration) \cup {0 - 1, NaN, Infinity}

Synthesize(lines, duration) ==
    /\ noiseGen.draws < MaxDraws
    /\ \E r \in {generateAudioBuffer(lines, duration, noiseGen)} :
          /\ call' = [op |-> "generateAudioBuffer", waveforms |-> lines,
                      duration |-> duration, threw |-> r.threw, buffer |-> r.buffer]
          /\ noiseGen' = r.gen
    /\ UNCHANGED <<waveformCache, fftCache, waveformLines, currentTime, evicted, pure>>

InitSynth ==
    /\ Apart
    /\ \E seed \in 0..MaxSeed : noiseGen = NewNoiseGenerator(seed)
    /\ pure = <<>>

NextSynth == \E lines \in SynthLists : \E duration \in Durations : Synthesize(lines, duration)

SpecSynth == InitSynth /\ [][NextSynth]_vars

Synthesized == call.op = "generateAudioBuffer"

\* no line of the call is both visible and unmuted
NoneHeard ==
    \A k \in 1..Len(call.waveforms) : ~call.waveforms[k].visible \/ call.waveforms[k].muted

Silent(buffer) == \A i \in 1..Len(buffer) : buffer[i] = 0

----------------------------------------------------------------------------
(* The three calls of the core with inputs the types do not rule out at run *)
(* time: a block without a parameter its type reads, a line without points  *)
(* array, a window or a duration that is not a positive finite number.      *)

\* a sine line as the store makes it, one whose block has no parameters, and
\* the loud sine line
CoreLines ==
    {NewLine("1", <<NewBlock("b1", "sine")>>),
     NewLine("1", <<[NewBlock("b1", "sine") EXCEPT !.parameters = NoParameters]>>),
     NewLine("1", <<[NewBlock("b1", "sine") EXCEPT !.parameters = NoParameters,
                                                   !.enabled = FALSE]>>),
     NewLine("1", LoudLine.blocks)}

\* an audible line with neither blocks nor points, alone and after a noise line
MalformedLists ==
    {<<PointsLine(NoPoints)>>, <<LineB, PointsLine(NoPoints)>>}

EvaluateLine(line) ==
    /\ call.op \in {"none", "processWaveformLine"}
    /\ Evaluate(<<line>>, 0)

\* the three screens share no state but the noise generator: each call follows
\* calls of its own kind
NextCore ==
    \/ \E line \in CoreLines : EvaluateLine(line)
    \/ \E lines \in {<<LineA>>, <<LineA2>>, <<Unlisted.missing>>} :
          \E window \in {<<1000, 2000>>, <<NaN, 2000>>, <<1000, Infinity>>} :
             /\ call.op \in {"none", "generateWaterfallData"}
             /\ Request(lines, window)
    \/ \E lines \in SynthLists \cup MalformedLists : \E duration \in Durations :
          /\ call.op \in {"none", "generateAudioBuffer"}
          /\ Synthesize(lines, duration)

SpecCore == InitSynth /\ [][NextCore]_vars

\* C18: no call of the core ends in an exception, whatever its input (the
\* estimator catches its own, so only the evaluator and the synthesizer can).
C18_NoCallThrows ==
    call.op \in {"processWaveformLine", "generateAudioBuffer"} => ~call.threw

----------------------------------------------------------------------------
(* The store's block operations (part_004 lines 137-264) on their own, from  *)
(* the empty line list.  Ids are Date.now().toString(): the model hands out *)
(* LineIds and BlockIds in order, and no more lines or blocks are made than  *)
(* there are ids.                                                            *)

\* addWaveformLine refuses a sixth line
StoreLineLimit == 5

\* parameter updates in one behaviour
MaxUpdates == 2

LineIds == <<"1", "2">>

BlockIds == <<"b1", "b2">>

\* the first block made is of any type, the later ones are sine blocks
TypesMade(made) == IF made = 0 THEN BlockTypes ELSE {"sine"}

\* below every minimum, inside most ranges, and above every maximum
Requests == {Units(0 - 100), Milli(250), <<20000, 0>>}

\* lines 137-155: the limit is tested on the list the callback captured at the
\* last render, the line is appended to the list the updater is handed
addWaveformLineTo(captured, prev, id) ==
    IF Len(captured) >= StoreLineLimit THEN prev ELSE Append(prev, NewLine(id, <<>>))

\* addWaveformLine called right after a render
addWaveformLine(lines, id) == addWaveformLineTo(lines, lines, id)

\* lines 178-197
addBlock(lines, lineId, id, blockType) ==
    [l \in 1..Len(lines) |->
       IF lines[l].id = lineId
       THEN [lines[l] EXCEPT !.blocks = Append(@, NewBlock(id, blockType))]
       ELSE lines[l]]

\* lines 199-211
removeBlock(lines, lineId, blockId) ==
    [l \in 1..Len(lines) |->
       IF lines[l].id = lineId
       THEN [lines[l] EXCEPT !.blocks = SelectSeq(@, LAMBDA b : b.id # blockId)]
       ELSE lines[l]]

\* toggleBlock without its test of the line's id
toggleBlockInEveryLine(lines, lineId, blockId) ==
    [l \in 1..Len(lines) |->
       [lines[l] EXCEPT !.blocks =
          [b \in 1..Len(lines[l].blocks) |->
             IF lines[l].blocks[b].id = blockId
             THEN [lines[l].blocks[b] EXCEPT !.enabled = ~lines[l].blocks[b].enabled]
             ELSE lines[l].blocks[b]]]]

\* lines 245-264
toggleBlock(lines, lineId, blockId) ==
    [l \in 1..Len(lines) |->
       IF lines[l].id = lineId
       THEN [lines[l] EXCEPT !.blocks =
               [b \in 1..Len(lines[l].blocks) |->
                  IF lines[l].blocks[b].id = blockId
                  THEN [lines[l].blocks[b] EXCEPT !.enabled = ~lines[l].blocks[b].enabled]
                  ELSE lines[l].blocks[b]]]
       ELSE lines[l]]

Stored(lines) ==
    /\ waveformLines' = lines
    /\ UNCHANGED <<waveformCache, fftCache, noiseGen, currentTime, evicted, call>>

\* the ids a caller can name: those of the lines and blocks made so far, and
\* one that was never handed out
KnownLines == {LineIds[k] : k \in 1..Len(waveformLines)} \cup {"none"}

KnownBlocks == {BlockIds[k] : k \in 1..pure.made} \cup {"none"}

\* what a caller asks to update: a parameter of a block in the store or a name
\* the block does not have, a block that is not in the line, a line that is
\* not in the store
Targets ==
    UNION {UNION {{<<waveformLines[l].id, waveformLines[l].blocks[b].id, name>> :
                     name \in DOMAIN waveformLines[l].blocks[b].parameters \cup {"none"}} :
                   b \in 1..Len(waveformLines[l].blocks)} :
           l \in 1..Len(waveformLines)}
      \cup {<<lineId, "none", "gain">> : lineId \in KnownLines}
      \cup {<<"none", blockId, "gain">> : blockId \in KnownBlocks}

AddLine ==
    /\ Len(waveformLines) < Len(LineIds)
    /\ Stored(addWaveformLine(waveformLines, LineIds[Len(waveformLines) + 1]))
    /\ UNCHANGED pure

AddBlock ==
    /\ pure.made < Len(BlockIds)
    /\ \E lineId \in KnownLines : \E blockType \in TypesMade(pure.made) :
          Stored(addBlock(waveformLines, lineId, BlockIds[pure.made + 1], blockType))
    /\ pure' = [pure EXCEPT !.made = @ + 1]

UpdateParameter ==
    /\ pure.updates < MaxUpdates
    /\ \E target \in Targets : \E value \in Requests :
          Stored(updateBlockParameter(waveformLines, target[1], target[2], target[3], value))
    /\ pure' = [pure EXCEPT !.updates = @ + 1]

ToggleBlock ==
    /\ \E lineId \in KnownLines : \E blockId \in KnownBlocks :
          Stored(toggleBlock(waveformLines, lineId, blockId))
    /\ UNCHANGED pure

RemoveBlock ==
    /\ \E lineId \in KnownLines : \E blockId \in KnownBlocks :
          Stored(removeBlock(waveformLines, lineId, blockId))
    /\ UNCHANGED pure

InitStore ==
    /\ Apart
    /\ noiseGen = NewNoiseGenerator(0)
    /\ pure = [updates |-> 0, made |-> 0]

NextStore == AddLine \/ AddBlock \/ UpdateParameter \/ ToggleBlock \/ RemoveBlock

SpecStore == InitStore /\ [][NextStore]_vars

\* the parameters of all blocks of all lines
StoredParameters ==
    UNION {UNION {{waveformLines[l].blocks[b].parameters[name] :
                     name \in DOMAIN waveformLines[l].blocks[b].parameters} :
                   b \in 1..Len(waveformLines[l].blocks)} :
           l \in 1..Len(waveformLines)}

\* C19: after any sequence of addBlock, updateBlockParameter, toggleBlock and
\* removeBlock from the empty line list, every parameter of every block has
\* min <= value <= max.
C19_ValuesInRange ==
    \A param \in StoredParameters : NumLE(param.min, param.value) /\ NumLE(param.value, param.max)

\* after two updates, a disabled block holds one parameter at its minimum and one
\* at its maximum, neither the template's value, next to an untouched block
C19_Witness ==
    /\ pure.updates = 2
    /\ \E l \in 1..Len(waveformLines) :
          /\ Len(waveformLines[l].blocks) = 2
          /\ waveformLines[l].blocks[2].parameters = BLOCK_TEMPLATES["sine"]
          /\ LET block == waveformLines[l].blocks[1]
             IN /\ ~block.enabled
                /\ \E low, high \in DOMAIN block.parameters :
                      /\ block.parameters[low].value = block.parameters[low].min
                      /\ block.parameters[low].value # BLOCK_TEMPLATES[block.type][low].value
                      /\ block.parameters[high].value = block.parameters[high].max
                      /\ block.parameters[high].value # BLOCK_TEMPLATES[block.type][high].value

----------------------------------------------------------------------------
(* The example of the sine line, on the screen's behaviours (Spec): the     *)
(* store's first line is the line of the example.                           *)

\* frequency 440, amplitude 0.5, phase 0, gain 0 dB
SineLine == NewLine("1", <<NewBlock("b1", "sine")>>)

SineLineAtZero ==
    /\ Evaluated
    /\ call.line = SineLine
    /\ call.time = 0
    /\ ~call.threw

\* the array computed from the line's blocks at time 0, and its points
ExampleArray == ComputedArray(0, KeyBlocks(SineLine), 0, Idle)

ExamplePoints == PointsOf(ExampleArray)

\* C20: the sine line of the example evaluated at time 0 gives DISPLAY_SAMPLES
\* points, the first at y = 0.5 and all of them with 0.1 <= y <= 0.9 (the array
\* returned, whichever object it is, holds the points computed from the line's
\* blocks at time 0).
C20_SineExample ==
    SineLineAtZero =>
       /\ [call.result EXCEPT !.obj = 0] = ExampleArray
       /\ Len(ExamplePoints) = DISPLAY_SAMPLES
       /\ ExamplePoints[1].y = 500000
       /\ \A k \in 1..Len(ExamplePoints) :
             ExamplePoints[k].y >= 100000 /\ ExamplePoints[k].y <= 900000

\* the line computed afresh: the curve leaves the centre by more than 0.15 on
\* both sides
C20_Witness ==
    /\ SineLineAtZero
    /\ ~call.hit
    /\ [call.result EXCEPT !.obj = 0] = ExampleArray
    /\ \E k \in 1..Len(ExamplePoints) : ExamplePoints[k].y < 350000
    /\ \E k \in 1..Len(ExamplePoints) : ExamplePoints[k].y > 650000

----------------------------------------------------------------------------
(* Soft limiting, generateAudioBuffer lines 764-766.                        *)

\* C21: every sample of the buffer the synthesizer returns lies strictly
\* between -1 and 1, whatever the magnitude of the sum it limits.
C21_StrictlyInside ==
    (Synthesized /\ ~call.threw) =>
       \A i \in 1..Len(call.buffer) :
          call.buffer[i] # NaN => (call.buffer[i] > 0 - 1000000 /\ call.buffer[i] < 1000000)

----------------------------------------------------------------------------
(* The impulse response of the lowpass biquad, processBlock lines 178-208.  *)

\* C22: the lowpass block with cutoff = SAMPLE_RATE / 4 and Q = 1 has the
\* coefficients b = (1/2, 1, 1/2), a = (3/2, 0, 1/2), and its response to the
\* unit impulse is bounded by 1 and decays: two samples on, the magnitude is
\* smaller (or stays 0), and the buffer ends at 0.
C22_ImpulseResponseDecays ==
    (Processed /\ pure.block = QuarterRateLowpass /\ pure.input = UnitImpulse) =>
       /\ FilterCoefficients(pure.block) = <<16384, 32768, 16384, 49152, 0, 16384>>
       /\ ~pure.threw
       /\ Len(pure.output) = ImpulseLength
       /\ \A n \in 1..ImpulseLength :
             /\ pure.output[n] # NaN
             /\ Abs(pure.output[n]) <= 1000000
             /\ n > 2 => \/ Abs(pure.output[n]) < Abs(pure.output[n - 2])
                         \/ pure.output[n] = 0
       /\ pure.output[ImpulseLength] = 0

\* the response starts 1/3, 2/3, 2/9, -2/9 and is at 0 by the end of the buffer
C22_Witness ==
    /\ Processed
    /\ pure.block = QuarterRateLowpass
    /\ pure.input = UnitImpulse
    /\ SubSeq(pure.output, 1, 4) = <<333333, 666666, 222222, 0 - 222222>>
    /\ pure.output[ImpulseLength] = 0

----------------------------------------------------------------------------
(* The block chain of processWaveformLine, lines 374-378, block by block.   *)

\* one turn of the loop of lines 376-378: the block, the buffer handed to it,
\* the noise generator it found and the buffer it returned
ChainStep(st, block, time) ==
    CHOOSE r \in {<<[block |-> block, input |-> st.signal, gen |-> st.gen,
                     threw |-> b.threw, output |-> b.output],
                    [signal |-> b.output, gen |-> b.gen]>> :
                    b \in {processBlock(block, st.signal, time, st.gen)}} : TRUE

\* lines 374-378: signal = new Array(DISPLAY_SAMPLES).fill(0), then every block
\* of the line in list order
ChainTrace(blocks, time, gen) ==
    Scan(LAMBDA st, block : ChainStep(st, block, time), blocks, 1, Len(blocks),
         [signal |-> ZeroSignal, gen |-> gen])

\* lines of two and three well-formed blocks: a generator before and after a
\* filter, generators on top of each other with a disabled block between them,
\* noise under an interpolator, filters between generators
Chained(types) == NewLine("1", [k \in 1..Len(types) |-> NewBlock(BlockIds[1], types[k])])

ChainLines ==
    {Chained(<<"sine", "lowpass">>),
     Chained(<<"lowpass", "sine">>),
     [Chained(<<"sine", "square", "noise">>) EXCEPT !.blocks[2].enabled = FALSE],
     Chained(<<"noise", "interpolate", "square">>),
     Chained(<<"triangle", "highpass", "pulse">>),
     Chained(<<"sawtooth", "notch">>)}

\* the screen evaluates a line, and the same line again at the same time (a
\* cache hit) or one frame later, until the cache holds two entries
EvaluateChain(line, time) ==
    /\ Len(waveformCache) < 2
    /\ call.op = "none" \/ call.line = line
    /\ \E r \in {processWaveformLine(line, time, waveformCache, noiseGen,
                                      {call.result.obj})} :
          /\ waveformLines' = <<line>>
          /\ currentTime' = time
          /\ waveformCache' = r.cache
          /\ noiseGen' = r.gen
          /\ evicted' = evicted \o r.deleted
          /\ call' = [op |-> "processWaveformLine", line |-> line, time |-> time,
                      threw |-> r.threw, hit |-> r.hit, read |-> r.read,
                      result |-> r.result,
                      before |-> [op |-> call.op, line |-> call.line, time |-> call.time,
                                  result |-> call.result]]
          /\ pure' = IF r.hit THEN <<>> ELSE ChainTrace(line.blocks, time, noiseGen)[1]
    /\ UNCHANGED fftCache

InitChain ==
    /\ Apart
    /\ \E seed \in 0..MaxSeed : noiseGen = NewNoiseGenerator(seed)
    /\ pure = <<>>

NextChain == \E line \in ChainLines : \E time \in {0, FrameMs} : EvaluateChain(line, time)

SpecChain == InitChain /\ [][NextChain]_vars

\* the samples a generator block makes of silence
OwnSamples(step) == processBlock(step.block, ZeroSignal, call.time, step.gen).output

\* C23: on a cache miss the blocks run in list order from an all-zero buffer of
\* DISPLAY_SAMPLES samples; each block is handed the buffer the block before it
\* returned and returns one of the same length; a generator returns its input
\* plus its own samples; a filter's output is a function of its input and its
\* parameters alone; the points returned are those of the last buffer.
C23_BlocksComposeInOrder ==
    (Evaluated /\ ~call.hit /\ ~call.line.muted) =>
       /\ Len(pure) = Len(call.line.blocks)
       /\ \A k \in 1..Len(pure) :
             /\ pure[k].block = call.line.blocks[k]
             /\ pure[k].input = IF k = 1 THEN [i \in 1..DISPLAY_SAMPLES |-> 0]
                                ELSE pure[k - 1].output
             /\ ~pure[k].threw
             /\ Len(pure[k].output) = Len(pure[k].input)
             /\ (pure[k].block.enabled /\ pure[k].block.type \in GeneratorTypes \cup {"noise"})
                   => \A own \in {OwnSamples(pure[k])} : \A i \in 1..DISPLAY_SAMPLES :
                         pure[k].output[i] = SAdd(pure[k].input[i], own[i])
             /\ pure[k].block.type \in FilterTypes
                   => pure[k].output
                        = processBlock(pure[k].block, pure[k].input,
                                       call.time + FrameMs, Idle).output
       /\ PointsOf(call.result)
            = DisplayPoints(IF Len(pure) = 0 THEN ZeroSignal ELSE pure[Len(pure)].output)

\* a highpass that was handed a triangle wave, and a pulse on top of its output
C23_Witness ==
    /\ Evaluated
    /\ ~call.hit
    /\ Len(pure) = 3
    /\ pure[2].block.type = "highpass"
    /\ pure[2].input # ZeroSignal
    /\ pure[2].output # pure[2].input
    /\ pure[3].block.type = "pulse"
    /\ pure[3].input = pure[2].output
    /\ pure[3].output # pure[3].input

----------------------------------------------------------------------------
(* What updateBlockParameter and toggleBlock leave alone (part_004 lines    *)
(* 213-264), for every call a caller can make on the lines the store holds. *)

\* the lines after a call differ from those before in nothing but the blocks
\* for which Allowed(line, block, blockAfter) holds: no line or block is
\* added, dropped or moved
OnlyBlocks(lines, after, Allowed(_, _, _)) ==
    /\ Len(after) = Len(lines)
    /\ \A l \in 1..Len(lines) :
          /\ [after[l] EXCEPT !.blocks = lines[l].blocks] = lines[l]
          /\ Len(after[l].blocks) = Len(lines[l].blocks)
          /\ \A b \in 1..Len(lines[l].blocks) :
                \/ after[l].blocks[b] = lines[l].blocks[b]
                \/ Allowed(lines[l], lines[l].blocks[b], after[l].blocks[b])

\* the block is the one named and differs in the value of the parameter only
OnlyValue(line, block, blockAfter, target) ==
    /\ line.id = target[1]
    /\ block.id = target[2]
    /\ target[3] \in DOMAIN block.parameters
    /\ blockAfter = [block EXCEPT !.parameters[target[3]].value =
                        blockAfter.parameters[target[3]].value]

\* the block is the one named and differs in its enabled flag only
OnlyEnabled(line, block, blockAfter, lineId, blockId) ==
    /\ line.id = lineId
    /\ block.id = blockId
    /\ blockAfter = [block EXCEPT !.enabled = ~block.enabled]

\* the edits of one behaviour
MaxEdits == 1

\* the store after addWaveformLine and addBlock: no line; a line without
\* blocks; a line of two blocks; two lines of a block each; a line whose two
\* blocks were added within one millisecond, so that Date.now() gave both the
\* same id
EditedLists ==
    {<<>>,
     addWaveformLine(<<>>, "1"),
     addBlock(addBlock(addWaveformLine(<<>>, "1"), "1", "b1", "pulse"), "1", "b2", "sine"),
     addBlock(addBlock(addWaveformLine(addWaveformLine(<<>>, "1"), "2"),
                       "1", "b1", "lowpass"), "2", "b2", "lowpass"),
     addBlock(addBlock(addWaveformLine(<<>>, "1"), "1", "b1", "noise"), "1", "b1", "notch")}

InitEdit ==
    /\ waveformCache = <<>>
    /\ fftCache = <<>>
    /\ currentTime = 0
    /\ evicted = <<>>
    /\ call = NoCall
    /\ noiseGen = NewNoiseGenerator(0)
    /\ waveformLines \in EditedLists
    /\ pure = [op |-> "none", made |-> Len(BlockIds), edits |-> 0]

EditParameter ==
    /\ pure.edits < MaxEdits
    /\ \E target \in Targets : \E value \in Requests :
          /\ Stored(updateBlockParameter(waveformLines, target[1], target[2], target[3],
                                         value))
          /\ pure' = [op |-> "updateBlockParameter", made |-> pure.made,
                      edits |-> pure.edits + 1, before |-> waveformLines,
                      target |-> target, value |-> value]

EditEnabled ==
    /\ pure.edits < MaxEdits
    /\ \E lineId \in KnownLines : \E blockId \in KnownBlocks :
          /\ Stored(toggleBlock(waveformLines, lineId, blockId))
          /\ pure' = [op |-> "toggleBlock", made |-> pure.made, edits |-> pure.edits + 1,
                      before |-> waveformLines, target |-> <<lineId, blockId>>]

NextEdit == EditParameter \/ EditEnabled

SpecEdit == InitEdit /\ [][NextEdit]_vars

\* C24: updateBlockParameter changes nothing but the value of the named
\* parameter of the named block of the named line, and toggleBlock nothing but
\* that block's enabled flag; ids, types, order, the other parameters, min, max
\* and step, and the other lines stay, and a call that names no line, block or
\* parameter of the store changes nothing.
C24_OnlyTheTargetChanges ==
    /\ pure.op = "updateBlockParameter" =>
          OnlyBlocks(pure.before, waveformLines,
                     LAMBDA line, block, blockAfter :
                        OnlyValue(line, block, blockAfter, pure.target))
    /\ pure.op = "toggleBlock" =>
          OnlyBlocks(pure.before, waveformLines,
                     LAMBDA line, block, blockAfter :
                        OnlyEnabled(line, block, blockAfter, pure.target[1], pure.target[2]))
    /\ (pure.op # "none"
          /\ \A l \in 1..Len(pure.before) :
                \/ pure.before[l].id # pure.target[1]
                \/ \A b \in 1..Len(pure.before[l].blocks) :
                      \/ pure.before[l].blocks[b].id # pure.target[2]
                      \/ /\ pure.op = "updateBlockParameter"
                         /\ pure.target[3] \notin DOMAIN pure.before[l].blocks[b].parameters)
          => waveformLines = pure.before

\* the cutoff of the second line's lowpass block went from 1000 Hz to its
\* maximum; the block of the same type in the first line is as it was made
C24_Witness ==
    /\ pure.op = "updateBlockParameter"
    /\ pure.target = <<"2", "b2", "cutoff">>
    /\ Len(waveformLines) = 2
    /\ waveformLines[1] = pure.before[1]
    /\ waveformLines[1].blocks[1].parameters = BLOCK_TEMPLATES["lowpass"]
    /\ waveformLines[2].blocks[1].parameters
         = [BLOCK_TEMPLATES["lowpass"] EXCEPT !.cutoff.value = TenGHz]
    /\ waveformLines[2].blocks[1].enabled

----------------------------------------------------------------------------
(* The display range of processWaveformLine, lines 380-398.                 *)

\* C25: every point the evaluator returns for an unmuted line has
\* 0.1 <= y <= 0.9, whatever the peak amplitude of the chain.
C25_PointsInBand ==
    (Evaluated /\ ~call.threw /\ ~call.line.muted) =>
       \A points \in {PointsOf(call.result)} :
          \A k \in 1..Len(points) : points[k].y >= 100000 /\ points[k].y <= 900000

----------------------------------------------------------------------------
(* The store's line list and selection (part_004 lines 137-176, 343-353).   *)
(* waveformLines is the state the next render will see; the callbacks read  *)
(* waveformLines and selectedLineId as the last render captured them        *)
(* (useCallback deps, lines 155 and 176), and the updaters are handed the   *)
(* current list.  pure holds selectedLineId, what the last render saw, the  *)
(* clock of Date.now() and the number of lines added.                       *)

\* selectedLineId === null
Null == "null"

\* addWaveformLine calls in one behaviour
MaxAdds == 6

\* milliseconds the clock moves on in one behaviour
MaxClock == 2

LineIdsOf(lines) == {lines[l].id : l \in 1..Len(lines)}

\* removeWaveformLine, lines 157-176: the updater filters the list it is handed
\* and moves the selection when the id equals the selectedLineId captured
removeWaveformLine(capturedSelected, prev, selected, lineId) ==
    LET filtered == SelectSeq(prev, LAMBDA line : line.id # lineId)
    IN [lines |-> filtered,
        selected |-> IF capturedSelected # lineId THEN selected
                     ELSE IF Len(filtered) > 0 THEN filtered[1].id ELSE Null]

InitLines ==
    /\ Apart
    /\ noiseGen = NewNoiseGenerator(0)
    /\ pure = [selected |-> Null, seen |-> [lines |-> <<>>, selected |-> Null],
               now |-> 0, adds |-> 0]

LinesStored(lines) ==
    /\ waveformLines' = lines
    /\ UNCHANGED <<waveformCache, fftCache, noiseGen, evicted, call>>

\* the component renders: the callbacks capture the state as it is
Render ==
    /\ pure.seen # [lines |-> waveformLines, selected |-> pure.selected]
    /\ pure' = [pure EXCEPT !.seen = [lines |-> waveformLines, selected |-> pure.selected]]
    /\ UNCHANGED <<waveformLines, currentTime>>
    /\ LinesStored(waveformLines)

\* Date.now() moves on
ClockTick ==
    /\ pure.now < MaxClock
    /\ pure' = [pure EXCEPT !.now = @ + 1]
    /\ UNCHANGED currentTime
    /\ LinesStored(waveformLines)

\* addWaveformLine(), lines 137-155
AddWaveformLine ==
    /\ pure.adds < MaxAdds
    /\ LinesStored(addWaveformLineTo(pure.seen.lines, waveformLines, ToString(pure.now)))
    /\ pure' = [pure EXCEPT !.adds = @ + 1,
                            !.selected = IF Len(pure.seen.lines) >= StoreLineLimit
                                         THEN @ ELSE ToString(pure.now)]
    /\ UNCHANGED currentTime

\* removeWaveformLine(lineId), for the id of a line the last render showed
RemoveWaveformLine ==
    /\ \E lineId \in LineIdsOf(pure.seen.lines) :
          \E r \in {removeWaveformLine(pure.seen.selected, waveformLines, pure.selected,
                                        lineId)} :
             /\ LinesStored(r.lines)
             /\ pure' = [pure EXCEPT !.selected = r.selected]
    /\ UNCHANGED currentTime

\* clearAll(), lines 343-353, with initializeDefaultLines, lines 88-92
ClearAll ==
    /\ waveformLines # <<>>
    /\ LinesStored(<<>>)
    /\ pure' = [pure EXCEPT !.selected = Null]
    /\ currentTime' = 0

NextLines == Render \/ ClockTick \/ AddWaveformLine \/ RemoveWaveformLine \/ ClearAll

SpecLines == InitLines /\ [][NextLines]_vars

\* C26: from the empty list, after any sequence of addWaveformLine and
\* removeWaveformLine calls the store holds at most 5 lines, also when calls
\* follow each other before the component renders again.
C26_AtMostFiveLines == Len(waveformLines) <= StoreLineLimit

\* C27: selectedLineId is null or the id of a line in the list, and it is null
\* exactly when the list is empty (never filled, emptied by removing the
\* selected line, or cleared).
C27_SelectionInList ==
    /\ pure.selected = Null \/ pure.selected \in LineIdsOf(waveformLines)
    /\ pure.selected = Null <=> waveformLines = <<>>

----------------------------------------------------------------------------
(* toggleSolo (part_004 lines 290-312) on lists the store makes, between    *)
(* calls of toggleMute (lines 266-276).                                     *)

\* the solo branch alone: the line unmuted, all others muted
toggleSoloNeverRelease(lines, lineId) ==
    IF \A l \in 1..Len(lines) : lines[l].id # lineId THEN lines
    ELSE [l \in 1..Len(lines) |-> [lines[l] EXCEPT !.muted = lines[l].id # lineId]]

\* lines 290-312
toggleSolo(lines, lineId) ==
    IF \A l \in 1..Len(lines) : lines[l].id # lineId THEN lines
    ELSE LET targetLine == lines[CHOOSE l \in 1..Len(lines) :
                                   /\ lines[l].id = lineId
                                   /\ \A k \in 1..(l - 1) : lines[k].id # lineId]
             isCurrentlySolo ==
                /\ ~targetLine.muted
                /\ \A l \in 1..Len(lines) : lines[l].id # lineId => lines[l].muted
         IN IF isCurrentlySolo
            THEN [l \in 1..Len(lines) |-> [lines[l] EXCEPT !.muted = FALSE]]
            ELSE [l \in 1..Len(lines) |-> [lines[l] EXCEPT !.muted = lines[l].id # lineId]]

\* toggleMute and toggleSolo calls in one behaviour
MaxToggles == 3

\* one, two and three lines as addWaveformLine and addBlock make them, at least
\* a millisecond apart
SoloLists ==
    {addWaveformLine(<<>>, "1"),
     addBlock(addWaveformLine(addWaveformLine(<<>>, "1"), "2"), "2", "b1", "sine"),
     addBlock(addWaveformLine(addWaveformLine(addWaveformLine(<<>>, "1"), "2"), "3"),
              "1", "b1", "noise")}

InitSolo ==
    /\ waveformCache = <<>>
    /\ fftCache = <<>>
    /\ currentTime = 0
    /\ evicted = <<>>
    /\ call = NoCall
    /\ noiseGen = NewNoiseGenerator(0)
    /\ waveformLines \in SoloLists
    /\ pure = [op |-> "none", toggles |-> 0]

\* the ids a caller can name: those of the lines, and one of no line
SoloTargets == LineIdsOf(waveformLines) \cup {"none"}

ToggleMute ==
    /\ pure.toggles < MaxToggles
    /\ \E lineId \in SoloTargets :
          /\ Stored(toggleMute(waveformLines, lineId))
          /\ pure' = [op |-> "toggleMute", toggles |-> pure.toggles + 1,
                      before |-> waveformLines, lineId |-> lineId]

ToggleSolo ==
    /\ pure.toggles < MaxToggles
    /\ \E lineId \in SoloTargets :
          /\ Stored(toggleSolo(waveformLines, lineId))
          /\ pure' = [op |-> "toggleSolo", toggles |-> pure.toggles + 1,
                      before |-> waveformLines, lineId |-> lineId]

NextSolo == ToggleMute \/ ToggleSolo

SpecSolo == InitSolo /\ [][NextSolo]_vars

\* the line named was unmuted and every other line muted
WasSolo ==
    \A l \in 1..Len(pure.before) :
       pure.before[l].muted <=> pure.before[l].id # pure.lineId

\* C28: toggleSolo(id) on a line of the list unmutes every line when that line
\* was unmuted and every other line muted, and otherwise leaves that line
\* unmuted and every other line muted; no field but muted changes, and an id
\* of no line changes nothing.
C28_SoloOrRelease ==
    pure.op = "toggleSolo" =>
       IF pure.lineId \notin LineIdsOf(pure.before) THEN waveformLines = pure.before
       ELSE /\ Len(waveformLines) = Len(pure.before)
            /\ \A l \in 1..Len(pure.before) :
                  /\ [waveformLines[l] EXCEPT !.muted = pure.before[l].muted]
                       = pure.before[l]
                  /\ waveformLines[l].muted
                       = IF WasSolo THEN FALSE ELSE pure.before[l].id # pure.lineId

\* of three lines the second alone was heard, the solo of the third silenced
\* it and the first stayed muted
C28_Witness ==
    /\ pure.op = "toggleSolo"
    /\ pure.lineId = "3"
    /\ Len(pure.before) = 3
    /\ pure.before[1].muted /\ ~pure.before[2].muted /\ pure.before[3].muted
    /\ waveformLines[1].muted /\ waveformLines[2].muted /\ ~waveformLines[3].muted
    /\ waveformLines[1].blocks = <<NewBlock("b1", "noise")>>

\* the solo of the only line heard was released: all three lines are heard
C28_Released ==
    /\ pure.op = "toggleSolo"
    /\ Len(pure.before) = 3
    /\ WasSolo
    /\ \A l \in 1..3 : ~waveformLines[l].muted

----------------------------------------------------------------------------
(* The bin test of generateWaterfallData, lines 525-536 and 584-585, in     *)
(* double precision.  The windows of the estimator's specifications above   *)
(* are whole numbers of Hz whose step is a dyadic fraction, so that every   *)
(* value of the test is exact; for other windows each sum, difference and   *)
(* product is rounded to 53 significant bits.  A double below 65536 that is *)
(* a whole number of 2^-60 is the sequence of its four digits to the base   *)
(* 2^24, lowest first, in that unit.                                        *)

Limb == Pow2(24)

BigZero == <<0, 0, 0, 0>>

\* digits that went out of 0 .. Limb - 1 brought back into it
BigCarry(x) ==
    LET s2 == x[2] + (x[1] \div Limb)
        s3 == x[3] + (s2 \div Limb)
    IN <<x[1] % Limb, s2 % Limb, s3 % Limb, x[4] + (s3 \div Limb)>>

BigAdd(a, b) == BigCarry([k \in 1..4 |-> a[k] + b[k]])

\* a - b for a >= b
BigSub(a, b) == BigCarry([k \in 1..4 |-> a[k] - b[k]])

\* a * k for 0 <= k < 128
BigTimes(a, k) == BigCarry([j \in 1..4 |-> a[j] * k])

BigLess(a, b) ==
    \E k \in 1..4 : a[k] < b[k] /\ \A j \in (k + 1)..4 : a[j] = b[j]

\* a / 2^k for a whole multiple of 2^k, k < 24: division by a power of two is
\* exact in double precision
BigShift(a, k) ==
    [j \in 1..4 |-> (a[j] \div Pow2(k))
                     + (IF j < 4 THEN (a[j + 1] % Pow2(k)) * Pow2(24 - k) ELSE 0)]

\* <<floor(a / 10), whether a digit was lost>>
RECURSIVE BigTenth(_, _, _)
BigTenth(a, k, rest) ==
    IF k = 0 THEN <<BigZero, rest # 0>>
    ELSE LET digit == rest * Limb + a[k]
             low == BigTenth([a EXCEPT ![k] = 0], k - 1, digit % 10)
         IN <<[low[1] EXCEPT ![k] = digit \div 10], low[2]>>

\* the number of binary digits of x
BitsOf(x) == CHOOSE n \in 0..30 : Pow2(n) > x /\ (n = 0 \/ Pow2(n - 1) <= x)

BitLength(a) ==
    IF a[4] > 0 THEN 72 + BitsOf(a[4])
    ELSE IF a[3] > 0 THEN 48 + BitsOf(a[3])
    ELSE IF a[2] > 0 THEN 24 + BitsOf(a[2])
    ELSE BitsOf(a[1])

\* a rounded to 53 significant bits, to nearest and to even on a tie; sticky: a
\* stands for a value slightly above it
Round53(a, sticky) ==
    LET s == BitLength(a) - 53
        rest == a[1] % Pow2(s)
        kept == [a EXCEPT ![1] = a[1] - rest]
        odd == (a[1] \div Pow2(s)) % 2 = 1
        half == Pow2(s - 1)
    IN IF s <= 0 THEN a
       ELSE IF rest > half \/ (rest = half /\ (sticky \/ odd))
       THEN BigAdd(kept, <<Pow2(s), 0, 0, 0>>)
       ELSE kept

\* the double nearest to n / 1000, for 0 <= n < 32768000: the value of a
\* parameter or of an argument given in thousandths
Double(n) ==
    LET tenth == BigTenth(<<0, 0, (n % 4096) * 4096, n \div 4096>>, 4, 0)
        hundredth == BigTenth(tenth[1], 4, 0)
        thousandth == BigTenth(hundredth[1], 4, 0)
    IN Round53(thousandth[1], tenth[2] \/ hundredth[2] \/ thousandth[2])

\* lines 525-528: minFreq = Math.max(0, centerFreq - bandwidth / 2) and
\* freqStep = bandwidth / numBins, of doubles centerFreq and bandwidth
DoubleWindow(centerFreq, bandwidth) ==
    LET half == BigShift(bandwidth, 1)
    IN [minFreq |-> IF BigLess(centerFreq, half) THEN BigZero
                    ELSE Round53(BigSub(centerFreq, half), FALSE),
        freqStep |-> BigShift(bandwidth, 7)]

\* line 535: freq = minFreq + i * freqStep
DoubleBinFrequency(window, i) ==
    Round53(BigAdd(window.minFreq, Round53(BigTimes(window.freqStep, i), FALSE)), FALSE)

\* line 585: blockFreq > 0 && blockFreq >= freq - freqStep / 2
\*                         && blockFreq < freq + freqStep / 2
DoubleInBin(blockFreq, window, i) ==
    LET freq == DoubleBinFrequency(window, i)
        half == BigShift(window.freqStep, 1)
    IN /\ blockFreq # BigZero
       /\ BigLess(freq, half) \/ ~BigLess(blockFreq, Round53(BigSub(freq, half), FALSE))
       /\ BigLess(blockFreq, Round53(BigAdd(freq, half), FALSE))

\* lines 532-596: the bins to which an enabled block of that frequency adds its
\* peak
PeakBins(blockFreq, window) ==
    {i \in 0..(NumBins - 1) : DoubleInBin(blockFreq, window, i)}

\* blockFreq in [minFreq - step / 2, minFreq + (numBins - 1/2) * step) with
\* minFreq = max(0, centerFreq - bandwidth / 2) and step = bandwidth / numBins
\* as real numbers, for a bandwidth of 1 Hz or more
InBinRange(blockFreq, centerFreq, bandwidth) ==
    LET half == BigShift(bandwidth, 1)
        minFreq == IF BigLess(centerFreq, half) THEN BigZero ELSE BigSub(centerFreq, half)
        step == BigShift(bandwidth, 7)
        halfStep == BigShift(bandwidth, 8)
    IN /\ ~BigLess(BigAdd(blockFreq, halfStep), minFreq)
       /\ BigLess(blockFreq, BigAdd(minFreq, BigAdd(BigTimes(step, NumBins - 1), halfStep)))

\* the windows asked for, <<centerFreq, bandwidth>> in thousandths of a Hz
BinWindows ==
    {<<1000000, 25600>>, <<2000000, 10240>>, <<1000200, 20480>>,
     <<1000000, 2000000>>, <<440000, 100000>>}

\* the frequencies given to the block, in thousandths of a Hz: the step of the
\* frequency parameter is 0.001
BinFrequencies ==
    {987500, 987300, 1999000, 991000, 440000, 1000000, 220000, 2100000, 50000, 1}

BinLines == {<<NewLine("1", <<NewBlock("b1", type)>>)>> : type \in {"sine", "lowpass", "noise"}}

InitBins ==
    /\ waveformCache = <<>>
    /\ fftCache = <<>>
    /\ currentTime = 0
    /\ evicted = <<>>
    /\ call = NoCall
    /\ noiseGen = NewNoiseGenerator(0)
    /\ waveformLines \in BinLines
    /\ \E window \in BinWindows :
         pure = [centerFreq |-> window[1], bandwidth |-> window[2], peaks |-> <<>>]

\* updateBlockParameter on the block's frequency (its cutoff for a filter)
SetBlockFrequency(value) ==
    /\ \E name \in {"frequency", "cutoff"} :
         /\ name \in DOMAIN waveformLines[1].blocks[1].parameters
         /\ waveformLines' = updateBlockParameter(waveformLines, "1", "b1", name, Milli(value))
    /\ UNCHANGED <<waveformCache, fftCache, noiseGen, currentTime, evicted, call, pure>>

\* toggleBlock on the block
ToggleBinBlock ==
    /\ waveformLines' = toggleBlock(waveformLines, "1", "b1")
    /\ UNCHANGED <<waveformCache, fftCache, noiseGen, currentTime, evicted, call, pure>>

\* the bin loop of generateWaterfallData, lines 532-596, for the first line:
\* for each of its blocks the bins that take its peak
LocatePeaks ==
    /\ \E window \in {DoubleWindow(Double(pure.centerFreq), Double(pure.bandwidth))} :
         pure' = [pure EXCEPT !.peaks =
                    [b \in 1..Len(waveformLines[1].blocks) |->
                       LET block == waveformLines[1].blocks[b]
                       IN IF block.enabled /\ block.type # "noise"
                          THEN PeakBins(Double(BlockFreq(block)), window)
                          ELSE {}]]
    /\ UNCHANGED <<waveformCache, fftCache, noiseGen, waveformLines, currentTime, evicted,
                   call>>

NextBins ==
    \/ \E value \in BinFrequencies : SetBlockFrequency(value)
    \/ ToggleBinBlock
    \/ LocatePeaks

SpecBins == InitBins /\ [][NextBins]_vars

\* C29: in a spectrum computed by generateWaterfallData each enabled block that
\* is not noise and whose frequency is above 0 gives its peak to at most one
\* bin: to exactly one when the frequency is in
\* [minFreq - step / 2, minFreq + (numBins - 1/2) * step), to none otherwise
C29_PeakInOneBin ==
    [][LocatePeaks =>
         \A b \in 1..Len(waveformLines[1].blocks) :
            LET block == waveformLines[1].blocks[b]
            IN (block.enabled /\ block.type # "noise" /\ BlockFreq(block) > 0) =>
                 Cardinality(pure'.peaks[b]) =
                   IF InBinRange(Double(BlockFreq(block)), Double(pure.centerFreq),
                                 Double(pure.bandwidth))
                   THEN 1 ELSE 0]_vars

----------------------------------------------------------------------------
(* The waterfall window of the store, src/unnamed/part_004 lines 355-368.   *)
(* Frequencies are numbers of half a thousandth of a Hz, so that half of a  *)
(* bandwidth given in thousandths is exact: two digits to the base Giga as  *)
(* above, or NaN or Infinity in the first digit.                            *)

NumNaN == <<NaN, 0>>

NumInfinity == <<Infinity, 0>>

NumIsFinite(a) == a[1] # NaN /\ a[1] # Infinity

\* digits that went out of 0 .. Giga - 1 brought back into it
NumCarry(hi, lo) == <<hi + (lo \div Giga), lo % Giga>>

\* a number of thousandths in halves of a thousandth
Twice(a) == IF NumIsFinite(a) THEN NumCarry(2 * a[1], 2 * a[2]) ELSE a

Hz(n) == Twice(Units(n))

\* a / 2 for an even a
NumHalf(a) ==
    IF NumIsFinite(a)
    THEN NumCarry(a[1] \div 2, ((a[1] % 2) * Giga + a[2]) \div 2)
    ELSE a

\* a - b for finite a and b, NaN for a NaN
NumMinus(a, b) ==
    IF a[1] = NaN \/ b[1] = NaN THEN NumNaN ELSE NumCarry(a[1] - b[1], a[2] - b[2])

\* a + b for finite a and b, NaN for a NaN
NumPlus(a, b) ==
    IF a[1] = NaN \/ b[1] = NaN THEN NumNaN ELSE NumCarry(a[1] + b[1], a[2] + b[2])

\* Math.min and Math.max: NaN if either argument is NaN
MathMin(a, b) == IF a[1] = NaN \/ b[1] = NaN THEN NumNaN ELSE NumMin(a, b)

MathMax(a, b) == IF a[1] = NaN \/ b[1] = NaN THEN NumNaN ELSE NumMax(a, b)

\* a <= b of two numbers: false when either is NaN
NumAtMost(a, b) == a[1] # NaN /\ b[1] # NaN /\ NumLE(a, b)

\* 10000000000, line 361
MaxCenter == Twice(TenGHz)

\* updateWaterfallCenter holding the centre within half of the bandwidth asked
\* for, not of the bandwidth stored
updateWaterfallCenterByRequest(settings, centerFreq, bandwidth) ==
    LET validBandwidth == MathMax(Hz(1), MathMin(Hz(2000000000), bandwidth))
        validCenterFreq ==
            MathMax(NumHalf(bandwidth),
                    MathMin(NumMinus(MaxCenter, NumHalf(bandwidth)), centerFreq))
    IN [settings EXCEPT !.waterfallCenterFreq = validCenterFreq,
                        !.waterfallBandwidth = validBandwidth]

\* updateWaterfallCenter, lines 359-368
updateWaterfallCenter(settings, centerFreq, bandwidth) ==
    LET validBandwidth == MathMax(Hz(1), MathMin(Hz(2000000000), bandwidth))
        validCenterFreq ==
            MathMax(NumHalf(validBandwidth),
                    MathMin(NumMinus(MaxCenter, NumHalf(validBandwidth)), centerFreq))
    IN [settings EXCEPT !.waterfallCenterFreq = validCenterFreq,
                        !.waterfallBandwidth = validBandwidth]

\* DEFAULT_GLOBAL_SETTINGS, src/unnamed/part_005 lines 100-101
DEFAULT_GLOBAL_SETTINGS ==
    [waterfallCenterFreq |-> Hz(1000000), waterfallBandwidth |-> Hz(1000000)]

\* the validation of generateWaterfallData, lines 497-502, passed by a window
PassesValidation(centerFreq, bandwidth) ==
    /\ NumIsFinite(centerFreq)
    /\ NumIsFinite(bandwidth)
    /\ ~NumLE(centerFreq, Hz(0))
    /\ ~NumLE(bandwidth, Hz(0))

\* the centre frequencies and bandwidths asked for
CenterArgs ==
    {NumNaN, NumInfinity} \cup
    {Twice(a) : a \in {Units(0), Units(0 - 5), Milli(500), Milli(1001), Units(1000000),
                       OneGHz, <<9999, 999999500>>, TenGHz, <<10000, 1>>, <<20000, 0>>,
                       <<0 - 3000, 0>>}}

BandwidthArgs ==
    {NumNaN, NumInfinity} \cup
    {Twice(a) : a \in {Units(0), Units(0 - 10), Milli(1), Units(1), Milli(1001),
                       Units(1000000), Units(2000000000), <<2000, 1>>, <<3000, 0>>}}

InitWindow ==
    /\ waveformCache = <<>>
    /\ fftCache = <<>>
    /\ waveformLines = <<>>
    /\ currentTime = 0
    /\ evicted = <<>>
    /\ call = NoCall
    /\ noiseGen = NewNoiseGenerator(0)
    /\ pure = [globalSettings |-> DEFAULT_GLOBAL_SETTINGS, op |-> "none",
               centerFreq |-> NumNaN, bandwidth |-> NumNaN]

\* updateWaterfallCenter(centerFreq, bandwidth)
UpdateWaterfallCenter(centerFreq, bandwidth) ==
    /\ pure' = [globalSettings |->
                  updateWaterfallCenter(pure.globalSettings, centerFreq, bandwidth),
                op |-> "updateWaterfallCenter",
                centerFreq |-> centerFreq, bandwidth |-> bandwidth]
    /\ UNCHANGED <<waveformCache, fftCache, noiseGen, waveformLines, currentTime, evicted,
                   call>>

\* updateGlobalSettings, lines 355-357: the settings are stored as they come
UpdateGlobalSettings(centerFreq, bandwidth) ==
    /\ pure' = [globalSettings |->
                  [waterfallCenterFreq |-> centerFreq, waterfallBandwidth |-> bandwidth],
                op |-> "updateGlobalSettings",
                centerFreq |-> centerFreq, bandwidth |-> bandwidth]
    /\ UNCHANGED <<waveformCache, fftCache, noiseGen, waveformLines, currentTime, evicted,
                   call>>

NextWindow ==
    \/ \E centerFreq \in CenterArgs, bandwidth \in BandwidthArgs :
         UpdateWaterfallCenter(centerFreq, bandwidth)
    \/ \E centerFreq \in CenterArgs, bandwidth \in BandwidthArgs :
         UpdateGlobalSettings(centerFreq, bandwidth)

SpecWindow == InitWindow /\ [][NextWindow]_vars

\* C30: after updateWaterfallCenter(centerFreq, bandwidth) with finite arguments
\* the stored bandwidth is in [1, 2 * 10^9], the stored centre is in
\* [bandwidth / 2, 10^10 - bandwidth / 2], the window
\* [centre - bandwidth / 2, centre + bandwidth / 2] is inside [0, 10^10] and both
\* values pass the validation of generateWaterfallData
C30_WindowInRange ==
    (/\ pure.op = "updateWaterfallCenter"
     /\ NumIsFinite(pure.centerFreq)
     /\ NumIsFinite(pure.bandwidth)) =>
        LET center == pure.globalSettings.waterfallCenterFreq
            bandwidth == pure.globalSettings.waterfallBandwidth
        IN /\ NumAtMost(Hz(1), bandwidth)
           /\ NumAtMost(bandwidth, Hz(2000000000))
           /\ NumAtMost(NumHalf(bandwidth), center)
           /\ NumAtMost(center, NumMinus(MaxCenter, NumHalf(bandwidth)))
           /\ NumAtMost(Hz(0), NumMinus(center, NumHalf(bandwidth)))
           /\ NumAtMost(NumPlus(center, NumHalf(bandwidth)), MaxCenter)
           /\ PassesValidation(center, bandwidth)

\* a centre of 0 Hz asked for with 3 GHz of bandwidth: the bandwidth stored is
\* 2 GHz and the centre 1 GHz
C30_Witness ==
    /\ pure.op = "updateWaterfallCenter"
    /\ pure.centerFreq = Hz(0)
    /\ pure.bandwidth = Twice(<<3000, 0>>)
    /\ pure.globalSettings.waterfallBandwidth = Hz(2000000000)
    /\ pure.globalSettings.waterfallCenterFreq = Hz(1000000000)

====
